---- MODULE Spec2Model ----
(***************************************************************************)
(* Model of the ingestion / change-detection / merge pipeline of the       *)
(* student-schedule backend:                                               *)
(*   - the merge engine (changes.Service.ApplyChanges and the              *)
(*     current_schedule repository),                                       *)
(*   - the change-set fingerprint (scraper.Service.calculateDataHash),     *)
(*   - the correction cycle (scraper.Service.ScrapeScheduleChanges),       *)
(*   - the timetable parser (gsheets.Client.ParseScheduleRecords),         *)
(*   - the correction parsers (scraper.Service.parseChangeRecords and      *)
(*     gsheets.Client.ParseChangeRecords),                                 *)
(*   - the periodic tasks (scraper.Service.StartPeriodicScraping).         *)
(***************************************************************************)
EXTENDS Integers, Sequences, FiniteSets, TLC

VARIABLES
    \* ---- current_schedule storage and the ApplyChanges call ----
    repoUsesTx,     \* TRUE: the repository methods run on the *sql.Tx; FALSE: on r.db
    rows,           \* committed content of table current_schedule
    txRows,         \* the table as seen inside the open transaction
    pc,             \* position of the ApplyChanges call: "idle" | "loop" | "returned"
    changes,        \* the slice passed to ApplyChanges
    idx,            \* index of the next Change of the range loop (1-based)
    applied,        \* indices of the Changes counted in appliedCount
    failed,         \* indices of the Changes whose storage operation failed
    result,         \* return value of the last ApplyChanges call
    nextRowId,      \* source of fresh uuid.New() values for row ids
    rowsAtBegin,    \* committed table at the time the call began
    lastStmt,       \* last storage statement executed by updateCurrentSchedule
    run1,           \* first clean ApplyChanges run on an empty store
    run2,           \* the clean run that directly followed run1
    \* ---- change-set fingerprint ----
    hashA,          \* first []ChangeRecord handed to calculateDataHash
    hashB,          \* second []ChangeRecord handed to calculateDataHash
    hpc,            \* "input" | "done"
    fpA,            \* fingerprint of hashA
    fpB,            \* fingerprint of hashB
    \* ---- correction cycle (ScrapeScheduleChanges) ----
    cpc,            \* position of the cycle: "idle" | "parsed" | "create" | "apply" | "applying" | "notify"
    lastChangeHash, \* Service.lastChangeHash
    changeRecords,  \* records returned by parseChangeRecords
    ci,             \* index of the running range loop (1-based)
    createdChanges, \* the slice createdChanges
    scheduleChanges,\* content of table schedule_changes
    notified,       \* ids of the Changes handed to SendScheduleChangeNotification
    nextChangeId,   \* source of fresh uuid.New() values for change ids
    cresult,        \* return value of the last cycle
    cexit,          \* where the last cycle returned
    notifyFailed,   \* ids of the Changes whose SendScheduleChangeNotification returned an error
    \* ---- timetable parser (gsheets ParseScheduleRecords) ----
    csvRecords,     \* the grid handed to the parser
    ppc,            \* position of the parser: "start" | "rows" | "done"
    rowIdx,         \* the loop index i (0-based, as in the code)
    groupNames,     \* the slice groupNames
    currentDayOfWeek, \* the weekday of the last day marker, <<>> when unknown
    currentDateStr, \* the date text of the last day marker
    records,        \* the slice records
    perr,           \* the error the parser returned: "none" until it returns
    \* ---- correction parsers (parseChangeRecords, ParseChangeRecords) ----
    chParser,       \* the function called: "service" | "gsheets"
    chCsv,          \* the corrections table handed to it
    chpc,           \* its position: "start" | "rows" | "done"
    chCols,         \* the column indexes found in the header (0-based, -1: none)
    chIdx,          \* index of the next data row (0-based, as in the code)
    chRecords,      \* the slice records
    chErr,          \* what the call ended with: "none" until then; "panic"
    \* ---- periodic tasks (StartPeriodicScraping) ----
    ctx,            \* the context handed to StartPeriodicScraping: "active" | "done"
    today,          \* time.Now().Weekday(): 0 (Sunday) .. 6 (Saturday)
    started,        \* StartPeriodicScraping has been called
    mainPc,         \* timetable goroutine: "off" | "start" | "cycle" | "select" | "stopped"
    mainPhase,      \* where its ScrapeMainSchedule call is: "none" | "fetch" | "store"
    mainTicker,     \* its ticker: "none" | "on" | "stopped"
    mainTickerC,    \* ticks waiting in its ticker.C (capacity 1)
    mainTicks,      \* ticks it has received
    mainCycles,     \* ScrapeMainSchedule calls it has made
    mainResult,     \* what its last returned call returned: "none" | "nil" | "error"
    chgPc,          \* corrections goroutine: "off" | "start" | "cycle" | "select" | "stopped"
    chgPhase,       \* per ScrapeScheduleChanges call: "none" | "fetch" | "create" | "apply" | "notify" | "returned"
    chgWait,        \* number of the call the goroutine is inside (0: none)
    chgTicker,      \* its ticker: "none" | "on" | "stopped"
    chgTickerC,     \* ticks waiting in its ticker.C (capacity 1)
    chgTicks,       \* ticks it has received
    chgCycles,      \* ScrapeScheduleChanges calls it has made
    chgResult,      \* what its last returned call returned: "none" | "nil" | "error"
    \* ---- timetable cycle (ScrapeMainSchedule), from the snapshot on ----
    snapshots,      \* content of table schedule_snapshots
    mpc,            \* position of the cycle: "off" | "idle" | "created"
    nextSnapshotId, \* source of fresh uuid.New() values for snapshot ids
    snapshot,       \* the snapshot the running cycle built (0: none)
    sentNew,        \* ids of the snapshots handed to SendNewScheduleNotification
    sentNewFailed,  \* ids of those whose notification returned an error
    mresult,        \* return value of the last cycle
    mexit,          \* where the last cycle returned
    accesses        \* the accesses the two goroutines made to fields of the Service: <<goroutine, field, "read" | "write">>

mergeVars == <<repoUsesTx, rows, txRows, pc, changes, idx, applied, failed,
               result, nextRowId, rowsAtBegin, lastStmt, run1, run2>>

hashVars == <<hashA, hashB, hpc, fpA, fpB>>

cycleVars == <<cpc, lastChangeHash, changeRecords, ci, createdChanges,
               scheduleChanges, notified, nextChangeId, cresult, cexit, notifyFailed>>

parseVars == <<csvRecords, ppc, rowIdx, groupNames, currentDayOfWeek,
               currentDateStr, records, perr>>

changesVars == <<chParser, chCsv, chpc, chCols, chIdx, chRecords, chErr>>

periodicVars == <<ctx, today, started, mainPc, mainPhase, mainTicker, mainTickerC,
                  mainTicks, mainCycles, chgPc, chgPhase, chgWait, chgTicker,
                  chgTickerC, chgTicks, chgCycles, accesses, mainResult, chgResult>>

snapshotVars == <<snapshots, mpc, nextSnapshotId, snapshot, sentNew, sentNewFailed,
                  mresult, mexit>>

vars == <<mergeVars, hashVars, cycleVars, parseVars, changesVars, periodicVars, snapshotVars>>

notMerge == <<hashVars, cycleVars, parseVars, changesVars, periodicVars, snapshotVars>>
notHash == <<mergeVars, cycleVars, parseVars, changesVars, periodicVars, snapshotVars>>
notMergeNorCycle == <<hashVars, parseVars, changesVars, periodicVars, snapshotVars>>
notParse == <<mergeVars, hashVars, cycleVars, changesVars, periodicVars, snapshotVars>>
notChanges == <<mergeVars, hashVars, cycleVars, parseVars, periodicVars, snapshotVars>>
notPeriodic == <<mergeVars, hashVars, cycleVars, parseVars, changesVars, snapshotVars>>
notSnapshot == <<mergeVars, hashVars, cycleVars, parseVars, changesVars, periodicVars>>

----------------------------------------------------------------------------
\* Bounds of the model

MaxChanges == 2       \* longest Change slice passed to ApplyChanges
MaxSchedules == 2     \* longest entry list passed to UpdateCurrentSchedule
MaxRowId == 4         \* number of row ids uuid.New() may hand out
MaxRecords == 2       \* longest []ChangeRecord handed to calculateDataHash
MaxParsed == 2        \* most records one correction cycle parses
MaxChangeId == 3      \* number of change ids uuid.New() may hand out
MaxBodyRows == 3      \* most rows after the header row of a timetable grid
MaxOrdinal == 13      \* largest lesson ordinal written in a timetable grid
MaxChangeRows == 2    \* most data rows of a corrections table
MaxTicks == 2         \* most ticks each periodic task receives
MaxSnapshots == 4     \* number of snapshot ids uuid.New() may hand out

----------------------------------------------------------------------------
\* Data model (schedule/models.go)

Date1 == "2025-06-23"
Date2 == "2025-06-24"

NoRun == [none |-> TRUE]

\* schedule.ScheduleChange values handed to ApplyChanges (identities fixed)
ScheduleChange(id, g, d, ts, te, subj, teach, room, kind, orig) ==
    [ID |-> id, GroupName |-> g, Date |-> d, TimeStart |-> ts, TimeEnd |-> te,
     Subject |-> subj, Teacher |-> teach, Classroom |-> room,
     ChangeType |-> kind, OriginalSubject |-> orig]

ChangePool ==
    { ScheduleChange("c1", "G1", Date1, "09:00", "09:45", "Math", "Smith", "101", "replacement", "History"),
      ScheduleChange("c2", "G1", Date1, "09:00", "", "Physics", "Jones", "202", "cancellation", ""),
      ScheduleChange("c3", "G2", Date1, "09:00", "09:45", "Math", "Smith", "101", "addition", ""),
      ScheduleChange("c4", "G1", Date1, "10:45", "11:30", "Physics", "", "", "replacement", "Math"),
      ScheduleChange("c5", "G1", Date2, "09:00", "09:45", "Math", "Jones", "101", "addition", "") }

\* schedule.CurrentSchedule
CurrentSchedule(id, g, d, ts, te, subj, teach, room, st, sid, act) ==
    [ID |-> id, GroupName |-> g, Date |-> d, TimeStart |-> ts, TimeEnd |-> te,
     Subject |-> subj, Teacher |-> teach, Classroom |-> room,
     SourceType |-> st, SourceID |-> sid, IsActive |-> act]

\* entries of a parsed timetable snapshot handed to UpdateCurrentSchedule
\* (row ids are assigned when the list is built)
SnapshotPool ==
    { [GroupName |-> "G1", Date |-> Date1, TimeStart |-> "09:00", TimeEnd |-> "09:45",
       Subject |-> "Math", Teacher |-> "Smith", Classroom |-> "101"],
      [GroupName |-> "G1", Date |-> Date2, TimeStart |-> "09:00", TimeEnd |-> "09:45",
       Subject |-> "Physics", Teacher |-> "Jones", Classroom |-> "202"],
      [GroupName |-> "G2", Date |-> Date1, TimeStart |-> "09:00", TimeEnd |-> "09:45",
       Subject |-> "Math", Teacher |-> "Jones", Classroom |-> "101"] }

SeqsUpTo(S, n) == UNION { [1..k -> S] : k \in 0..n }

SameKey(r, g, d, ts) == r.GroupName = g /\ r.Date = d /\ r.TimeStart = ts

----------------------------------------------------------------------------
\* Repository (schedule/repository.go): statements on a table value

\* variant: the lookup never finds the existing entry
GetCurrentScheduleEntry_NeverFound(table, groupName, date, timeStart) == {}

\* SELECT ... WHERE group_name = $1 AND date = $2 AND time_start = $3
\* AND is_active = true: the rows QueryRow may scan (none: sql.ErrNoRows)
GetCurrentScheduleEntry(table, groupName, date, timeStart) ==
    { r \in table : SameKey(r, groupName, date, timeStart) /\ r.IsActive }

\* variant: the UPDATE statement selects the rows by group and date
UpdateCurrentScheduleEntry_WholeDay(table, entry) ==
    { IF r.GroupName = entry.GroupName /\ r.Date = entry.Date
        THEN [r EXCEPT !.Subject = entry.Subject, !.Teacher = entry.Teacher,
                       !.Classroom = entry.Classroom, !.SourceType = entry.SourceType,
                       !.SourceID = entry.SourceID, !.IsActive = entry.IsActive]
        ELSE r : r \in table }

\* variant: the UPDATE statement leaves the classroom column out
UpdateCurrentScheduleEntry_NoClassroom(table, entry) ==
    { IF r.ID = entry.ID
        THEN [r EXCEPT !.Subject = entry.Subject, !.Teacher = entry.Teacher,
                       !.SourceType = entry.SourceType,
                       !.SourceID = entry.SourceID, !.IsActive = entry.IsActive]
        ELSE r : r \in table }

\* UPDATE current_schedule SET subject, teacher, classroom, source_type,
\* source_id, is_active WHERE id = $7
UpdateCurrentScheduleEntry(table, entry) ==
    { IF r.ID = entry.ID
        THEN [r EXCEPT !.Subject = entry.Subject, !.Teacher = entry.Teacher,
                       !.Classroom = entry.Classroom, !.SourceType = entry.SourceType,
                       !.SourceID = entry.SourceID, !.IsActive = entry.IsActive]
        ELSE r : r \in table }

\* INSERT INTO current_schedule (...) VALUES (...)
CreateCurrentScheduleEntry(table, entry) == table \cup {entry}

\* SELECT ... WHERE group_name = $1 AND date = $2 AND is_active = true
GetCurrentScheduleForGroup(table, groupName, date) ==
    { r \in table : r.GroupName = groupName /\ r.Date = date /\ r.IsActive }

----------------------------------------------------------------------------
\* Initial state: an empty current_schedule table, no call in progress.
\* Both builds of the repository are considered: the methods that execute
\* on the *sql.Tx handed to them, and the methods that execute on r.db.

InitMerge ==
    /\ repoUsesTx \in BOOLEAN
    /\ rows = {}
    /\ txRows = {}
    /\ pc = "idle"
    /\ changes = <<>>
    /\ idx = 1
    /\ applied = {}
    /\ failed = {}
    /\ result = "none"
    /\ nextRowId = 1
    /\ rowsAtBegin = {}
    /\ lastStmt = "none"
    /\ run1 = NoRun
    /\ run2 = NoRun

\* the table the repository statements of the running call operate on
View == IF repoUsesTx THEN txRows ELSE rows

Write(newTable) ==
    IF repoUsesTx
      THEN txRows' = newTable /\ rows' = rows
      ELSE rows' = newTable /\ txRows' = txRows

\* row content with the generated row id set aside, with multiplicity
Strip(r) == [f \in (DOMAIN r) \ {"ID"} |-> r[f]]
Content(table) ==
    [c \in {Strip(r) : r \in table} |-> Cardinality({r \in table : Strip(r) = c})]

----------------------------------------------------------------------------
\* changes.Service.ApplyChanges

\* tx, err := s.scheduleRepo.BeginTx(ctx); an error is returned at once
ApplyChanges_Begin(S) ==
    /\ pc = "idle"
    /\ nextRowId + Len(S) - 1 <= MaxRowId
    /\ changes' = S
    /\ idx' = 1
    /\ applied' = {}
    /\ failed' = {}
    /\ lastStmt' = "none"
    /\ rowsAtBegin' = rows
    /\ \/ /\ pc' = "loop"
          /\ txRows' = rows
          /\ result' = "none"
          /\ UNCHANGED <<run1, run2>>
       \/ /\ pc' = "returned"
          /\ txRows' = txRows
          /\ result' = "begin_err"
          /\ run1' = NoRun
          /\ run2' = NoRun
    /\ UNCHANGED <<repoUsesTx, rows, nextRowId>>

\* variant: a cancellation takes the existing entry out of the active set
updateCurrentSchedule_CancellationDeactivates(change, ok) ==
    LET found == GetCurrentScheduleEntry(View, change.GroupName, change.Date, change.TimeStart)
    IN
    \/ /\ ~ok
       /\ lastStmt' = "get_err"
       /\ UNCHANGED <<rows, txRows, nextRowId>>
    \/ \E existing \in found :
          LET entry == [existing EXCEPT !.Subject = change.Subject,
                                        !.Teacher = change.Teacher,
                                        !.Classroom = change.Classroom,
                                        !.SourceType = "change",
                                        !.SourceID = change.ID,
                                        !.IsActive = (change.ChangeType # "cancellation")]
          IN \/ /\ ok
                /\ Write(UpdateCurrentScheduleEntry(View, entry))
                /\ lastStmt' = "update"
                /\ UNCHANGED nextRowId
             \/ /\ ~ok
                /\ lastStmt' = "update_err"
                /\ UNCHANGED <<rows, txRows, nextRowId>>
    \/ /\ found = {}
       /\ LET newEntry == CurrentSchedule(nextRowId, change.GroupName, change.Date,
                                          change.TimeStart, change.TimeEnd,
                                          change.Subject, change.Teacher,
                                          change.Classroom, "change", change.ID, TRUE)
          IN \/ /\ ok
                /\ Write(CreateCurrentScheduleEntry(View, newEntry))
                /\ lastStmt' = "insert"
                /\ nextRowId' = nextRowId + 1
             \/ /\ ~ok
                /\ lastStmt' = "insert_err"
                /\ UNCHANGED <<rows, txRows, nextRowId>>

\* updateCurrentSchedule(ctx, tx, &change); ok is (returned err == nil)
updateCurrentSchedule(change, ok) ==
    LET found == GetCurrentScheduleEntry(View, change.GroupName, change.Date, change.TimeStart)
    IN
    \/ \* GetCurrentScheduleEntry fails with an error other than sql.ErrNoRows
       /\ ~ok
       /\ lastStmt' = "get_err"
       /\ UNCHANGED <<rows, txRows, nextRowId>>
    \/ \* an entry exists: overwrite it
       \E existing \in found :
          LET entry == [existing EXCEPT !.Subject = change.Subject,
                                        !.Teacher = change.Teacher,
                                        !.Classroom = change.Classroom,
                                        !.SourceType = "change",
                                        !.SourceID = change.ID]
          IN \/ /\ ok
                /\ Write(UpdateCurrentScheduleEntry(View, entry))
                /\ lastStmt' = "update"
                /\ UNCHANGED nextRowId
             \/ /\ ~ok
                /\ lastStmt' = "update_err"
                /\ UNCHANGED <<rows, txRows, nextRowId>>
    \/ \* sql.ErrNoRows: create a new entry
       /\ found = {}
       /\ LET newEntry == CurrentSchedule(nextRowId, change.GroupName, change.Date,
                                          change.TimeStart, change.TimeEnd,
                                          change.Subject, change.Teacher,
                                          change.Classroom, "change", change.ID, TRUE)
          IN \/ /\ ok
                /\ Write(CreateCurrentScheduleEntry(View, newEntry))
                /\ lastStmt' = "insert"
                /\ nextRowId' = nextRowId + 1
             \/ /\ ~ok
                /\ lastStmt' = "insert_err"
                /\ UNCHANGED <<rows, txRows, nextRowId>>

\* variant: the first failing Change ends the call with an error
ApplyChanges_Step_AbortOnError ==
    /\ pc = "loop"
    /\ idx <= Len(changes)
    /\ \E ok \in BOOLEAN :
          /\ updateCurrentSchedule(changes[idx], ok)
          /\ applied' = IF ok THEN applied \cup {idx} ELSE applied
          /\ failed' = IF ok THEN failed ELSE failed \cup {idx}
          /\ pc' = IF ok THEN "loop" ELSE "returned"
          /\ result' = IF ok THEN result ELSE "apply_err"
    /\ idx' = idx + 1
    /\ UNCHANGED <<repoUsesTx, changes, rowsAtBegin, run1, run2>>
    /\ UNCHANGED notMerge

\* one iteration of "for _, change := range changes": a failure is logged
\* and the loop continues with the next Change
ApplyChanges_Step ==
    /\ pc = "loop"
    /\ idx <= Len(changes)
    /\ \E ok \in BOOLEAN :
          /\ updateCurrentSchedule(changes[idx], ok)
          /\ applied' = IF ok THEN applied \cup {idx} ELSE applied
          /\ failed' = IF ok THEN failed ELSE failed \cup {idx}
    /\ idx' = idx + 1
    /\ UNCHANGED <<repoUsesTx, pc, changes, result, rowsAtBegin, run1, run2>>
    /\ UNCHANGED notMerge

\* tx.Commit() after the loop; the call returns nil when it succeeds
ApplyChanges_Commit ==
    /\ pc = "loop"
    /\ idx > Len(changes)
    /\ pc' = "returned"
    /\ \/ /\ result' = "nil"
          /\ rows' = View
          /\ IF failed # {}
               THEN run1' = NoRun /\ run2' = NoRun
               ELSE IF run1 # NoRun /\ run2 = NoRun /\ run1.changes = changes
                 THEN run1' = run1 /\ run2' = [changes |-> changes, after |-> Content(View)]
                 ELSE IF rowsAtBegin = {}
                   THEN run1' = [changes |-> changes, after |-> Content(View)] /\ run2' = NoRun
                   ELSE run1' = NoRun /\ run2' = NoRun
       \/ /\ result' = "commit_err"
          /\ rows' = rows
          /\ run1' = NoRun
          /\ run2' = NoRun
    /\ UNCHANGED <<repoUsesTx, txRows, changes, idx, applied, failed, nextRowId,
                   rowsAtBegin, lastStmt>>
    /\ UNCHANGED notMerge

\* the call has returned to its caller; its locals are gone
ApplyChanges_Return ==
    /\ pc = "returned"
    /\ pc' = "idle"
    /\ txRows' = {}
    /\ changes' = <<>>
    /\ idx' = 1
    /\ applied' = {}
    /\ failed' = {}
    /\ result' = "none"
    /\ rowsAtBegin' = {}
    /\ lastStmt' = "none"
    /\ UNCHANGED <<repoUsesTx, rows, nextRowId, run1, run2>>

\* a caller invokes ApplyChanges with some Change slice
ApplyChanges ==
    /\ \E S \in SeqsUpTo(ChangePool, MaxChanges) : ApplyChanges_Begin(S)
    /\ UNCHANGED notMerge

\* ... and gets the result back
ApplyChanges_Returned ==
    /\ ApplyChanges_Return
    /\ UNCHANGED notMerge

----------------------------------------------------------------------------
\* schedule.Repository.UpdateCurrentSchedule (snapshot replace)

\* groupDateMap[s.GroupName] = s.Date for every entry, in list order
groupDateMap(schedules) ==
    [g \in {schedules[i].GroupName : i \in 1..Len(schedules)} |->
        LET last == CHOOSE i \in 1..Len(schedules) :
                       /\ schedules[i].GroupName = g
                       /\ \A j \in 1..Len(schedules) :
                             schedules[j].GroupName = g => j <= i
        IN schedules[last].Date]

\* the table after the deactivate statement and the inserts
UpdateCurrentSchedule(table, schedules) ==
    LET m == groupDateMap(schedules)
        groupNamesParam == DOMAIN m
        dates == {m[g] : g \in groupNamesParam}
        deactivated ==
            { IF r.GroupName \in groupNamesParam /\ r.Date \in dates /\ r.IsActive
                THEN [r EXCEPT !.IsActive = FALSE] ELSE r : r \in table }
    IN deactivated \cup {schedules[i] : i \in 1..Len(schedules)}

DistinctKeys(list) ==
    \A i, j \in 1..Len(list) :
        SameKey(list[i], list[j].GroupName, list[j].Date, list[j].TimeStart) => i = j

\* the whole call: one transaction, rolled back when a statement or the
\* commit fails
Repository_UpdateCurrentSchedule ==
    /\ pc = "idle"
    /\ \E list \in SeqsUpTo(SnapshotPool, MaxSchedules) :
          /\ DistinctKeys(list)
          /\ nextRowId + Len(list) - 1 <= MaxRowId
          /\ LET schedules ==
                   [i \in 1..Len(list) |->
                      CurrentSchedule(nextRowId + i - 1, list[i].GroupName, list[i].Date,
                                      list[i].TimeStart, list[i].TimeEnd, list[i].Subject,
                                      list[i].Teacher, list[i].Classroom,
                                      "main", "s1", TRUE)]
             IN \/ /\ rows' = UpdateCurrentSchedule(rows, schedules)
                   /\ nextRowId' = nextRowId + Len(list)
                \/ /\ rows' = rows
                   /\ nextRowId' = nextRowId
    /\ run1' = NoRun
    /\ run2' = NoRun
    /\ UNCHANGED <<repoUsesTx, txRows, pc, changes, idx, applied, failed, result,
                   rowsAtBegin, lastStmt>>
    /\ UNCHANGED notMerge

----------------------------------------------------------------------------
----------------------------------------------------------------------------
\* Change-set fingerprint (scraper/service.go)

\* scraper.ChangeRecord
ChangeRecord(g, d, ts, te, subj, teach, room, kind, orig) ==
    [GroupName |-> g, Date |-> d, TimeStart |-> ts, TimeEnd |-> te,
     Subject |-> subj, Teacher |-> teach, Classroom |-> room,
     ChangeType |-> kind, OriginalSubject |-> orig]

\* two cell texts that are not valid UTF-8: "G1" followed by the byte 0xFF,
\* and "G1" followed by the byte 0xFE
G1xFF == "G1[0xFF]"
G1xFE == "G1[0xFE]"

BaseRecord ==
    ChangeRecord("G1", Date1, "09:00", "09:45", "Math", "Smith", "101", "replacement", "History")

\* the base record, one record differing from it in each single field, and
\* two records whose group names differ in one invalid byte
RecordPool ==
    { BaseRecord,
      [BaseRecord EXCEPT !.GroupName = "G2"],
      [BaseRecord EXCEPT !.Date = Date2],
      [BaseRecord EXCEPT !.TimeStart = "10:45"],
      [BaseRecord EXCEPT !.TimeEnd = ""],
      [BaseRecord EXCEPT !.Subject = "Physics"],
      [BaseRecord EXCEPT !.Teacher = "Jones"],
      [BaseRecord EXCEPT !.Classroom = "202"],
      [BaseRecord EXCEPT !.ChangeType = "cancellation"],
      [BaseRecord EXCEPT !.OriginalSubject = ""],
      [BaseRecord EXCEPT !.GroupName = G1xFF],
      [BaseRecord EXCEPT !.GroupName = G1xFE] }

\* encoding/json string encoding: the text is coerced to valid UTF-8, every
\* invalid byte being written as the escape \ufffd; valid text is written
\* quoted and escaped, one-to-one
jsonString(str) ==
    CASE str = G1xFF -> "\"G1\\ufffd\""
      [] str = G1xFE -> "\"G1\\ufffd\""
      [] OTHER -> "\"" \o str \o "\""

\* encoding/json of a time.Time: RFC 3339, here a date at midnight UTC
jsonTime(date) == "\"" \o date \o "T00:00:00Z\""

\* json.Marshal of one ChangeRecord: the fields in declaration order
jsonChangeRecord(r) ==
    << <<"group_name", jsonString(r.GroupName)>>,
       <<"date", jsonTime(r.Date)>>,
       <<"time_start", jsonString(r.TimeStart)>>,
       <<"time_end", jsonString(r.TimeEnd)>>,
       <<"subject", jsonString(r.Subject)>>,
       <<"teacher", jsonString(r.Teacher)>>,
       <<"classroom", jsonString(r.Classroom)>>,
       <<"change_type", jsonString(r.ChangeType)>>,
       <<"original_subject", jsonString(r.OriginalSubject)>> >>

\* json.Marshal of the slice: "null" for the nil slice the parser returns
\* when it emitted nothing, else the records in slice order
jsonMarshal(data) ==
    IF Len(data) = 0 THEN [null |-> TRUE, items |-> <<>>]
    ELSE [null |-> FALSE, items |-> [i \in 1..Len(data) |-> jsonChangeRecord(data[i])]]

\* the zero value "" of a hash string: no digest is the empty string
NoHash == [empty |-> TRUE, md5 |-> [null |-> FALSE, items |-> <<>>]]

\* hex(md5(json)): the digest is taken as collision-free over its input
calculateDataHash(data) == [empty |-> FALSE, md5 |-> jsonMarshal(data)]

InitHash ==
    /\ hashA \in SeqsUpTo(RecordPool, MaxRecords)
    /\ hashB \in SeqsUpTo(RecordPool, MaxRecords)
    /\ hpc = "input"
    /\ fpA = NoHash
    /\ fpB = NoHash

IdleHash ==
    /\ hashA = <<>>
    /\ hashB = <<>>
    /\ hpc = "off"
    /\ fpA = NoHash
    /\ fpB = NoHash

IdleMerge ==
    /\ InitMerge
    /\ repoUsesTx = TRUE

\* the fingerprints of the two slices are computed
calculateDataHash_Both ==
    /\ hpc = "input"
    /\ hpc' = "done"
    /\ fpA' = calculateDataHash(hashA)
    /\ fpB' = calculateDataHash(hashB)
    /\ UNCHANGED <<hashA, hashB>>
    /\ UNCHANGED notHash

NextHash == calculateDataHash_Both

----------------------------------------------------------------------------
\* Timetable parser: gsheets.Client.ParseScheduleRecords
\*
\* A cell is a string, kept as the sequence of its tokens: the separators
\* " ", "-" and ",", the digits and the sign characters are one token each,
\* every other run of characters (a word) is one token.  The Russian words
\* of the tables are written in Latin letters: "Den" is the word of the day
\* marker, "Ponedelnik" .. "Subbota" are Monday .. Saturday, "Voskresenye" is
\* Sunday.

Text(word) == <<word>>

Digit == {"0", "1", "2", "3", "4", "5", "6", "7", "8", "9"}

DigitValue(t) ==
    CASE t = "0" -> 0 [] t = "1" -> 1 [] t = "2" -> 2 [] t = "3" -> 3
      [] t = "4" -> 4 [] t = "5" -> 5 [] t = "6" -> 6 [] t = "7" -> 7
      [] t = "8" -> 8 [] t = "9" -> 9

\* strings.TrimSpace
RECURSIVE TrimLeft(_)
TrimLeft(s) == IF s # <<>> /\ Head(s) = " " THEN TrimLeft(Tail(s)) ELSE s

RECURSIVE TrimRight(_)
TrimRight(s) ==
    IF s # <<>> /\ s[Len(s)] = " " THEN TrimRight(SubSeq(s, 1, Len(s) - 1)) ELSE s

TrimSpace(s) == TrimRight(TrimLeft(s))

\* strings.ToLower, on the words the tables use
LowerToken(t) ==
    CASE t = "Den" -> "den"
      [] t = "DEN" -> "den"
      [] t = "Ponedelnik" -> "ponedelnik"
      [] t = "Vtornik" -> "vtornik"
      [] t = "Sreda" -> "sreda"
      [] t = "Chetverg" -> "chetverg"
      [] t = "Pyatnica" -> "pyatnica"
      [] t = "Subbota" -> "subbota"
      [] t = "Voskresenye" -> "voskresenye"
      [] t = "Math" -> "math"
      [] t = "Physics" -> "physics"
      [] t = "A" -> "a"
      [] t = "D" -> "d"
      [] t = "G" -> "g"
      [] t = "O" -> "o"
      [] t = "P" -> "p"
      [] t = "T" -> "t"
      [] t = "V" -> "v"
      [] t = "Z" -> "z"
      [] OTHER -> t

ToLower(s) == [k \in 1..Len(s) |-> LowerToken(s[k])]

\* strings.Contains
Contains(s, substr) ==
    \E k \in 1..(Len(s) - Len(substr) + 1) : SubSeq(s, k, k + Len(substr) - 1) = substr

\* strings.Split on a one-character separator
RECURSIVE Split(_, _)
Split(s, sep) ==
    IF \A k \in 1..Len(s) : s[k] # sep
      THEN <<s>>
      ELSE LET k == CHOOSE j \in 1..Len(s) :
                        s[j] = sep /\ \A m \in 1..(j - 1) : s[m] # sep
           IN <<SubSeq(s, 1, k - 1)>> \o Split(SubSeq(s, k + 1, Len(s)), sep)

\* strconv.Atoi: an optional sign, then one digit or more
RECURSIVE DigitsValue(_, _)
DigitsValue(s, acc) ==
    IF s = <<>> THEN acc ELSE DigitsValue(Tail(s), acc * 10 + DigitValue(Head(s)))

Atoi(s) ==
    LET signed == s # <<>> /\ Head(s) \in {"-", "+"}
        digits == IF signed THEN Tail(s) ELSE s
    IN IF digits = <<>> \/ \E k \in 1..Len(digits) : digits[k] \notin Digit
         THEN [err |-> TRUE, value |-> 0]
         ELSE [err |-> FALSE,
               value |-> IF signed /\ Head(s) = "-"
                           THEN 0 - DigitsValue(digits, 0)
                           ELSE DigitsValue(digits, 0)]

LessonTiming(number, timeStart, timeEnd) ==
    [Number |-> number, TimeStart |-> timeStart, TimeEnd |-> timeEnd]

weekdayTimings ==
    << LessonTiming(1, "08:15", "09:00"), LessonTiming(2, "09:00", "09:45"),
       LessonTiming(3, "09:55", "10:40"), LessonTiming(4, "10:40", "11:25"),
       LessonTiming(5, "11:40", "12:25"), LessonTiming(6, "12:25", "13:10"),
       LessonTiming(7, "13:30", "14:15"), LessonTiming(8, "14:15", "15:00"),
       LessonTiming(9, "15:15", "16:00"), LessonTiming(10, "16:00", "16:45"),
       LessonTiming(11, "16:55", "17:40"), LessonTiming(12, "17:40", "18:25") >>

saturdayTimings ==
    << LessonTiming(1, "08:15", "09:00"), LessonTiming(2, "09:00", "09:45"),
       LessonTiming(3, "09:50", "10:35"), LessonTiming(4, "10:35", "11:20"),
       LessonTiming(5, "11:35", "12:20"), LessonTiming(6, "12:20", "13:05"),
       LessonTiming(7, "13:20", "14:05"), LessonTiming(8, "14:05", "14:50"),
       LessonTiming(9, "15:05", "15:50"), LessonTiming(10, "15:50", "16:35"),
       LessonTiming(11, "16:40", "17:25"), LessonTiming(12, "17:25", "18:10") >>

weekdays ==
    { Text("Ponedelnik"), Text("Vtornik"), Text("Sreda"), Text("Chetverg"),
      Text("Pyatnica") }

Saturday == Text("Subbota")

\* variant: Saturday is given the table of the five weekdays
getBellTimings_SaturdayAsWeekday(day) ==
    IF day \in weekdays \cup {Saturday}
      THEN [ok |-> TRUE, timings |-> weekdayTimings]
      ELSE [ok |-> FALSE, timings |-> <<>>]

\* the map built by getBellTimings, looked up at one key
getBellTimings(day) ==
    IF day \in weekdays THEN [ok |-> TRUE, timings |-> weekdayTimings]
    ELSE IF day = Saturday THEN [ok |-> TRUE, timings |-> saturdayTimings]
    ELSE [ok |-> FALSE, timings |-> <<>>]

ScheduleRecord(groupName, subject, teacher, classroom, timeStart, timeEnd, dayOfWeek) ==
    [GroupName |-> groupName, Subject |-> subject, Teacher |-> teacher,
     Classroom |-> classroom, TimeStart |-> timeStart, TimeEnd |-> timeEnd,
     DayOfWeek |-> dayOfWeek]

columnsPerGroup == 4

\* the group names of CSV[1]: the trimmed non-empty cells after the first
RECURSIVE GroupNamesFrom(_, _)
GroupNamesFrom(groupsLine, k) ==
    IF k > Len(groupsLine) THEN <<>>
    ELSE LET groupName == TrimSpace(groupsLine[k])
         IN (IF groupName # <<>> THEN <<groupName>> ELSE <<>>)
            \o GroupNamesFrom(groupsLine, k + 1)

\* variant: a lesson without a bell entry gets the times of the first lesson
LessonTime_DefaultFirstLesson(dayOfWeek, lessonNumber) ==
    LET found == getBellTimings(dayOfWeek)
        hits == IF dayOfWeek # <<>> /\ found.ok
                  THEN { k \in 1..Len(found.timings) :
                           found.timings[k].Number = lessonNumber }
                  ELSE {}
    IN IF hits = {}
         THEN [TimeStart |-> "08:15", TimeEnd |-> "09:00"]
         ELSE LET k == CHOOSE j \in hits : \A m \in hits : j <= m
              IN [TimeStart |-> found.timings[k].TimeStart,
                  TimeEnd |-> found.timings[k].TimeEnd]

\* the time of lesson lessonNumber on day dayOfWeek, "" when unknown
LessonTime(dayOfWeek, lessonNumber) ==
    LET found == getBellTimings(dayOfWeek)
        hits == IF dayOfWeek # <<>> /\ found.ok
                  THEN { k \in 1..Len(found.timings) :
                           found.timings[k].Number = lessonNumber }
                  ELSE {}
    IN IF hits = {}
         THEN [TimeStart |-> "", TimeEnd |-> ""]
         ELSE LET k == CHOOSE j \in hits : \A m \in hits : j <= m
              IN [TimeStart |-> found.timings[k].TimeStart,
                  TimeEnd |-> found.timings[k].TimeEnd]

\* variant: a record is emitted for an empty subject cell too
GroupRecord_KeepEmptySubject(row, groupNames_, groupIndex, timing, dayOfWeek) ==
    LET startColIndex == 1 + (groupIndex * columnsPerGroup)
        endColIndex == startColIndex + columnsPerGroup - 1
    IN IF endColIndex >= Len(row)
         THEN <<>>
         ELSE << ScheduleRecord(groupNames_[groupIndex + 1],
                                TrimSpace(row[startColIndex + 1]),
                                TrimSpace(row[startColIndex + 3]),
                                TrimSpace(row[startColIndex + 4]),
                                timing.TimeStart, timing.TimeEnd, dayOfWeek) >>

\* body of the loop over the groups: the record of one group in one row, if
\* any (row[c] of the code is row[c + 1] here)
GroupRecord(row, groupNames_, groupIndex, timing, dayOfWeek) ==
    LET startColIndex == 1 + (groupIndex * columnsPerGroup)
        endColIndex == startColIndex + columnsPerGroup - 1
    IN IF endColIndex >= Len(row)
         THEN <<>>
         ELSE LET subject == TrimSpace(row[startColIndex + 1])
                  teacher == TrimSpace(row[startColIndex + 3])
                  classroom == TrimSpace(row[startColIndex + 4])
              IN IF subject = <<>>
                   THEN <<>>
                   ELSE << ScheduleRecord(groupNames_[groupIndex + 1], subject,
                                          teacher, classroom, timing.TimeStart,
                                          timing.TimeEnd, dayOfWeek) >>

RECURSIVE GroupRecords(_, _, _, _, _)
GroupRecords(row, groupNames_, groupIndex, timing, dayOfWeek) ==
    IF groupIndex >= Len(groupNames_)
      THEN <<>>
      ELSE GroupRecord(row, groupNames_, groupIndex, timing, dayOfWeek)
           \o GroupRecords(row, groupNames_, groupIndex + 1, timing, dayOfWeek)

DayMarkerText == <<"den", " ", "-">>

IsEmptyRow(row) == Len(row) = 0 \/ (Len(row) = 1 /\ TrimSpace(row[1]) = <<>>)

IsDayMarkerRow(row) == Len(row) > 0 /\ Contains(ToLower(row[1]), DayMarkerText)

\* one pass of the loop over the body rows: the new weekday, date and the
\* records the row adds
ParseRow(row, groupNames_, dayOfWeek, dateStr) ==
    LET same == [day |-> dayOfWeek, date |-> dateStr, new |-> <<>>]
        expectedHeaderColumns == Len(groupNames_) * columnsPerGroup
    IN IF IsEmptyRow(row) THEN same
       ELSE IF IsDayMarkerRow(row)
         THEN LET parts == Split(row[1], ",")
              IN IF Len(parts) >= 2
                   THEN LET dayParts == Split(TrimSpace(parts[1]), "-")
                        IN [day |-> IF Len(dayParts) >= 2
                                      THEN TrimSpace(dayParts[2])
                                      ELSE dayOfWeek,
                            date |-> TrimSpace(parts[2]),
                            new |-> <<>>]
                   ELSE same
       ELSE IF Len(row) < expectedHeaderColumns THEN same
       ELSE LET lessonNumberStr == TrimSpace(row[1])
                lessonNumber == Atoi(lessonNumberStr)
            IN IF lessonNumberStr = <<>> \/ lessonNumber.err
                 THEN same
                 ELSE [day |-> dayOfWeek, date |-> dateStr,
                       new |-> GroupRecords(row, groupNames_, 0,
                                            LessonTime(dayOfWeek, lessonNumber.value),
                                            dayOfWeek)]

\* ---- the grids handed to the parser ----

HeaderLine(n) == [k \in 1..n |-> Text("h")]

GroupsCell == <<"Gruppy", " ", "-">>

Header1 == << <<Text("Raspisanie")>>, <<GroupsCell, Text("G1")>>, <<>>, <<>>,
              HeaderLine(5) >>

Header2 == << <<Text("Raspisanie")>>,
              <<GroupsCell, <<" ", "G1", " ">>, <<>>, Text("G2")>>, <<>>, <<>>,
              HeaderLine(9) >>

HeaderNoGroupsLine == [Header1 EXCEPT ![2] = <<>>]

HeaderNoGroupNames == [Header1 EXCEPT ![2] = <<GroupsCell, <<" ">>, <<>>>>]

HeaderShort == [Header2 EXCEPT ![5] = HeaderLine(5)]

DayMarkerCell(weekday, dateStr) ==
    <<"Den", " ", "-", " ">> \o weekday \o <<",", " ">> \o dateStr

OrdinalCell(n) ==
    IF n < 10 THEN <<ToString(n)>> ELSE <<ToString(n \div 10), ToString(n % 10)>>

OrdinalPool == 0..MaxOrdinal

\* the ordinal n of the lesson rows of a grid and the weekday of its first
\* kind of day marker ("Voskresenye", Sunday, has no bell table)
GridParams ==
    { [n |-> n, day |-> Text("Ponedelnik")] : n \in OrdinalPool }
    \cup { [n |-> 3, day |-> d] : d \in weekdays \cup {Text("Voskresenye")} }

\* body rows: day markers (the third has no comma), lesson rows of 5, 9, 9
\* and 8 cells, a row with a non-numeric ordinal, a row of one blank cell
RowPool(n, day) ==
    { << DayMarkerCell(day, Text("23.06.2025")) >>,
      << DayMarkerCell(Saturday, Text("28.06.2025")) >>,
      << <<"Den", " ", "-", " ", "Vtornik">> >>,
      << OrdinalCell(n), Text("Math"), Text("lecture"), Text("Smith"), Text("101") >>,
      << <<" ">> \o OrdinalCell(n) \o <<" ">>, <<" ", "Math">>, Text("lecture"),
         <<"Smith", " ", "J.", " ">>, Text("101"),
         Text("Physics"), Text("lab"), Text("Jones"), Text("202") >>,
      << Text("2"), <<" ">>, <<>>, <<>>, <<>>,
         Text("Physics"), Text("lab"), Text("Jones"), Text("202") >>,
      << Text("1"), Text("Math"), Text("lecture"), Text("Smith"), Text("101"),
         Text("Physics"), Text("lab"), Text("Jones") >>,
      << Text("x"), Text("Math"), Text("lecture"), Text("Smith"), Text("101"),
         Text("Physics"), Text("lab"), Text("Jones"), Text("202") >>,
      << <<" ">> >> }

\* the grid is a header and a body of rows of one RowPool
IsGrid(grid) ==
    \/ \E header \in {Header1, Header2}, p \in GridParams :
          \E body \in SeqsUpTo(RowPool(p.n, p.day), MaxBodyRows) :
             grid = header \o body
    \/ \E header \in {HeaderNoGroupsLine, HeaderNoGroupNames, HeaderShort},
          p \in GridParams :
          \E body \in SeqsUpTo(RowPool(p.n, p.day), 1) : grid = header \o body
    \/ grid = SubSeq(Header1, 1, 4)

InitParse ==
    /\ IsGrid(csvRecords)
    /\ ppc = "start"
    /\ rowIdx = 0
    /\ groupNames = <<>>
    /\ currentDayOfWeek = <<>>
    /\ currentDateStr = <<>>
    /\ records = <<>>
    /\ perr = "none"

IdleParse ==
    /\ csvRecords = <<>>
    /\ ppc = "off"
    /\ rowIdx = 0
    /\ groupNames = <<>>
    /\ currentDayOfWeek = <<>>
    /\ currentDateStr = <<>>
    /\ records = <<>>
    /\ perr = "none"

ParseError(err) ==
    /\ ppc' = "done"
    /\ perr' = err
    /\ UNCHANGED <<csvRecords, rowIdx, groupNames, currentDayOfWeek, currentDateStr,
                   records>>

\* variant: the width of the header row CSV[4] is not checked
ParseScheduleRecords_Layout_NoHeaderCheck ==
    /\ ppc = "start"
    /\ IF Len(csvRecords) < 5 THEN ParseError("too_few_rows")
       ELSE IF Len(csvRecords[2]) = 0 THEN ParseError("groups_line_empty")
       ELSE LET names == GroupNamesFrom(csvRecords[2], 2)
            IN IF Len(names) = 0 THEN ParseError("no_group_names")
               ELSE /\ ppc' = "rows"
                    /\ rowIdx' = 5
                    /\ groupNames' = names
                    /\ UNCHANGED <<csvRecords, currentDayOfWeek, currentDateStr,
                                   records, perr>>
    /\ UNCHANGED notParse

\* the checks before the loop (rowIdx is the index i of the code)
ParseScheduleRecords_Layout ==
    /\ ppc = "start"
    /\ IF Len(csvRecords) < 5 THEN ParseError("too_few_rows")
       ELSE IF Len(csvRecords[2]) = 0 THEN ParseError("groups_line_empty")
       ELSE LET names == GroupNamesFrom(csvRecords[2], 2)
            IN IF Len(names) = 0 THEN ParseError("no_group_names")
               ELSE IF Len(csvRecords[5]) < Len(names) * columnsPerGroup
                 THEN ParseError("header_too_short")
                 ELSE /\ ppc' = "rows"
                      /\ rowIdx' = 5
                      /\ groupNames' = names
                      /\ UNCHANGED <<csvRecords, currentDayOfWeek, currentDateStr,
                                     records, perr>>
    /\ UNCHANGED notParse

\* one iteration of "for i := 5; i < len(csvRecords); i++"
ParseScheduleRecords_Row ==
    /\ ppc = "rows"
    /\ rowIdx < Len(csvRecords)
    /\ LET out == ParseRow(csvRecords[rowIdx + 1], groupNames, currentDayOfWeek,
                           currentDateStr)
       IN /\ currentDayOfWeek' = out.day
          /\ currentDateStr' = out.date
          /\ records' = records \o out.new
    /\ rowIdx' = rowIdx + 1
    /\ UNCHANGED <<csvRecords, ppc, groupNames, perr>>
    /\ UNCHANGED notParse

\* "return records, nil"
ParseScheduleRecords_Return ==
    /\ ppc = "rows"
    /\ rowIdx >= Len(csvRecords)
    /\ ppc' = "done"
    /\ perr' = "nil"
    /\ UNCHANGED <<csvRecords, rowIdx, groupNames, currentDayOfWeek, currentDateStr,
                   records>>
    /\ UNCHANGED notParse

NextParse ==
    \/ ParseScheduleRecords_Layout
    \/ ParseScheduleRecords_Row
    \/ ParseScheduleRecords_Return

----------------------------------------------------------------------------
\* Correction parsers: scraper.Service.parseChangeRecords and
\* gsheets.Client.ParseChangeRecords
\*
\* Header cells and change-kind cells are kept letter by letter, one token
\* per letter of the Russian word, written with the Latin name of the letter.

\* the words the correction parsers look for, letter by letter
WordGruppa == <<"g", "r", "u", "p", "p", "a">>
WordData == <<"d", "a", "t", "a">>
WordVremya == <<"v", "r", "e", "m", "ya">>
WordNachalo == <<"n", "a", "ch", "a", "l", "o">>
WordOkonchanie == <<"o", "k", "o", "n", "ch", "a", "n", "i", "e">>
WordPredmet == <<"p", "r", "e", "d", "m", "e", "t">>
WordPrepodavatel == <<"p", "r", "e", "p", "o", "d", "a", "v", "a", "t", "e", "l", "soft">>
WordAuditoriya == <<"a", "u", "d", "i", "t", "o", "r", "i", "ya">>
WordTip == <<"t", "i", "p">>
WordIzmeneni == <<"i", "z", "m", "e", "n", "e", "n", "i">>
WordZamena == <<"z", "a", "m", "e", "n", "a">>
WordOriginalnyj == <<"o", "r", "i", "g", "i", "n", "a", "l", "soft", "n", "y", "j">>
WordOtmena == <<"o", "t", "m", "e", "n", "a">>
WordDobavlenie == <<"d", "o", "b", "a", "v", "l", "e", "n", "i", "e">>
WordVremyaNachala == <<"v", "r", "e", "m", "ya", " ", "n", "a", "ch", "a", "l", "a">>
WordVremyaOkonchaniya == <<"v", "r", "e", "m", "ya", " ", "o", "k", "o", "n", "ch", "a", "n", "i", "ya">>
WordTipIzmeneniya == <<"t", "i", "p", " ", "i", "z", "m", "e", "n", "e", "n", "i", "ya">>
WordOriginalnyjPredmet == <<"o", "r", "i", "g", "i", "n", "a", "l", "soft", "n", "y", "j", " ", "p", "r", "e", "d", "m", "e", "t">>
WordCancelled == <<"c", "a", "n", "c", "e", "l", "l", "e", "d">>
WordCancellation == <<"c", "a", "n", "c", "e", "l", "l", "a", "t", "i", "o", "n">>
WordAdded == <<"a", "d", "d", "e", "d">>
WordAddition == <<"a", "d", "d", "i", "t", "i", "o", "n">>
WordReplaced == <<"r", "e", "p", "l", "a", "c", "e", "d">>
WordReplacement == <<"r", "e", "p", "l", "a", "c", "e", "m", "e", "n", "t">>

\* the text of a header cell of a corrections table, by the kind of column
HeaderText(col) ==
    CASE col = "group" -> <<"G", "r", "u", "p", "p", "a">>
      [] col = "date" -> <<"D", "a", "t", "a">>
      [] col = "start_a" -> <<"V", "r", "e", "m", "ya", " ", "n", "a", "ch", "a", "l", "a">>
      [] col = "start_o" -> <<"V", "r", "e", "m", "ya", " ", "n", "a", "ch", "a", "l", "o">>
      [] col = "end_ya" -> <<"V", "r", "e", "m", "ya", " ", "o", "k", "o", "n", "ch", "a", "n", "i", "ya">>
      [] col = "end_e" -> <<"V", "r", "e", "m", "ya", " ", "o", "k", "o", "n", "ch", "a", "n", "i", "e">>
      [] col = "subject" -> <<"P", "r", "e", "d", "m", "e", "t">>
      [] col = "teacher" -> <<"P", "r", "e", "p", "o", "d", "a", "v", "a", "t", "e", "l", "soft">>
      [] col = "room" -> <<"A", "u", "d", "i", "t", "o", "r", "i", "ya">>
      [] col = "kind" -> <<"T", "i", "p", " ", "i", "z", "m", "e", "n", "e", "n", "i", "ya">>
      [] col = "orig" -> <<"O", "r", "i", "g", "i", "n", "a", "l", "soft", "n", "y", "j", " ", "p", "r", "e", "d", "m", "e", "t">>

\* change-kind cells
CellOtmena == <<"o", "t", "m", "e", "n", "a">>
CellZamena == <<" ", "Z", "a", "m", "e", "n", "a", " ">>
CellPerenos == <<"p", "e", "r", "e", "n", "o", "s">>
CellCancelled == <<"c", "a", "n", "c", "e", "l", "l", "e", "d">>

\* the columns both parsers look for; -1 is "not found"
NoColumns ==
    [groupCol |-> -1, dateCol |-> -1, timeStartCol |-> -1, timeEndCol |-> -1,
     subjectCol |-> -1, teacherCol |-> -1, classroomCol |-> -1,
     changeTypeCol |-> -1, originalSubjectCol |-> -1]

RECURSIVE max(_)
max(s) ==
    IF Len(s) = 1 THEN s[1]
    ELSE LET rest == max(Tail(s)) IN IF Head(s) > rest THEN Head(s) ELSE rest

\* time.Parse of a date cell under one layout
ParseDate(layout, dateStr) ==
    CASE layout = "02.01.2006" /\ dateStr = Text("23.06.2025") -> [err |-> FALSE, date |-> Date1]
      [] layout = "02.01.2006" /\ dateStr = Text("24.06.2025") -> [err |-> FALSE, date |-> Date2]
      [] layout = "2006-01-02" /\ dateStr = <<"2025", "-", "06", "-", "24">> -> [err |-> FALSE, date |-> Date2]
      [] layout = "01/02/2006" /\ dateStr = Text("06/23/2025") -> [err |-> FALSE, date |-> Date1]
      [] OTHER -> [err |-> TRUE, date |-> ""]

\* ---- Service.parseChangeRecords ----

\* the case of the switch that a lower-cased column name takes
ServiceColumnCase(lowerColName) ==
    IF Contains(lowerColName, WordGruppa) THEN "groupCol"
    ELSE IF Contains(lowerColName, WordData) THEN "dateCol"
    ELSE IF Contains(lowerColName, WordVremya) /\ Contains(lowerColName, WordNachalo)
      THEN "timeStartCol"
    ELSE IF Contains(lowerColName, WordVremya) /\ Contains(lowerColName, WordOkonchanie)
      THEN "timeEndCol"
    ELSE IF Contains(lowerColName, WordPredmet) THEN "subjectCol"
    ELSE IF Contains(lowerColName, WordPrepodavatel) THEN "teacherCol"
    ELSE IF Contains(lowerColName, WordAuditoriya) THEN "classroomCol"
    ELSE IF Contains(lowerColName, WordTip)
            /\ (Contains(lowerColName, WordIzmeneni) \/ Contains(lowerColName, WordZamena))
      THEN "changeTypeCol"
    ELSE IF Contains(lowerColName, WordOriginalnyj) /\ Contains(lowerColName, WordPredmet)
      THEN "originalSubjectCol"
    ELSE "none"

\* the map "columns": trimmed column name -> index (the last cell of a name)
ServiceColumnsMap(header) ==
    [colName \in {TrimSpace(header[i]) : i \in 1..Len(header)} |->
        (CHOOSE i \in 1..Len(header) :
            /\ TrimSpace(header[i]) = colName
            /\ \A j \in 1..Len(header) : TrimSpace(header[j]) = colName => j <= i) - 1]

\* the values one variable can end with after the range over the map, whose
\* order Go leaves open: the index of any column name that takes its case
ServiceColumnChoices(header, role) ==
    LET columnsMap == ServiceColumnsMap(header)
        hits == { columnsMap[colName] : colName \in
                    { c \in DOMAIN columnsMap : ServiceColumnCase(ToLower(c)) = role } }
    IN IF hits = {} THEN {-1} ELSE hits

ServiceColumns(header) ==
    [groupCol : ServiceColumnChoices(header, "groupCol"),
     dateCol : ServiceColumnChoices(header, "dateCol"),
     timeStartCol : ServiceColumnChoices(header, "timeStartCol"),
     timeEndCol : ServiceColumnChoices(header, "timeEndCol"),
     subjectCol : ServiceColumnChoices(header, "subjectCol"),
     teacherCol : ServiceColumnChoices(header, "teacherCol"),
     classroomCol : ServiceColumnChoices(header, "classroomCol"),
     changeTypeCol : ServiceColumnChoices(header, "changeTypeCol"),
     originalSubjectCol : ServiceColumnChoices(header, "originalSubjectCol")]

\* the date of a cell: the first of the three layouts that parses
ServiceParseDate(dateStr) ==
    LET a == ParseDate("02.01.2006", dateStr)
        b == ParseDate("2006-01-02", dateStr)
        c == ParseDate("01/02/2006", dateStr)
    IN IF ~a.err THEN a ELSE IF ~b.err THEN b ELSE c

\* the change type of a row: "replacement" unless the cell says otherwise
ServiceChangeType(row, cols) ==
    IF cols.changeTypeCol # -1 /\ cols.changeTypeCol < Len(row)
      THEN LET v == ToLower(TrimSpace(row[cols.changeTypeCol + 1]))
           IN IF v \in {WordOtmena, WordCancelled, WordCancellation} THEN "cancellation"
              ELSE IF v \in {WordDobavlenie, WordAdded, WordAddition} THEN "addition"
              ELSE "replacement"
      ELSE "replacement"

OptionalCell(row, col) ==
    IF col # -1 /\ col < Len(row) THEN TrimSpace(row[col + 1]) ELSE <<>>

\* the records one data row adds (row[c] of the code is row[c + 1] here)
ServiceParseRow(row, cols) ==
    IF Len(row) <= max(<<cols.groupCol, cols.dateCol, cols.timeStartCol, cols.subjectCol>>)
      THEN <<>>
      ELSE LET parsed == ServiceParseDate(TrimSpace(row[cols.dateCol + 1]))
               record == ChangeRecord(TrimSpace(row[cols.groupCol + 1]), parsed.date,
                                      TrimSpace(row[cols.timeStartCol + 1]),
                                      OptionalCell(row, cols.timeEndCol),
                                      TrimSpace(row[cols.subjectCol + 1]),
                                      OptionalCell(row, cols.teacherCol),
                                      OptionalCell(row, cols.classroomCol),
                                      ServiceChangeType(row, cols),
                                      OptionalCell(row, cols.originalSubjectCol))
           IN IF parsed.err THEN <<>>
              ELSE IF record.GroupName = <<>> \/ record.Subject = <<>> THEN <<>>
              ELSE <<record>>

\* ---- gsheets.Client.ParseChangeRecords ----

\* the index of the last header cell that equals the word, or -1
ClientColumn(headers, word) ==
    LET hits == { i \in 1..Len(headers) : TrimSpace(ToLower(headers[i])) = word }
    IN IF hits = {} THEN -1 ELSE (CHOOSE i \in hits : \A j \in hits : j <= i) - 1

ClientColumns(headers) ==
    [groupCol |-> ClientColumn(headers, WordGruppa),
     dateCol |-> ClientColumn(headers, WordData),
     timeStartCol |-> ClientColumn(headers, WordVremyaNachala),
     timeEndCol |-> ClientColumn(headers, WordVremyaOkonchaniya),
     subjectCol |-> ClientColumn(headers, WordPredmet),
     teacherCol |-> ClientColumn(headers, WordPrepodavatel),
     classroomCol |-> ClientColumn(headers, WordAuditoriya),
     changeTypeCol |-> ClientColumn(headers, WordTipIzmeneniya),
     originalSubjectCol |-> ClientColumn(headers, WordOriginalnyjPredmet)]

ClientChangeType(changeTypeStr) ==
    IF changeTypeStr = WordZamena THEN "replacement"
    ELSE IF changeTypeStr = WordOtmena THEN "cancellation"
    ELSE IF changeTypeStr = WordDobavlenie THEN "addition"
    ELSE "unknown"

\* what one data row does: it is skipped, adds a record, or the index
\* expression row[teacherCol] or row[classroomCol] with index -1 panics
ClientParseRow(row, cols) ==
    LET skip == [panic |-> FALSE, new |-> <<>>]
    IN IF Len(row) <= max(<<cols.groupCol, cols.dateCol, cols.timeStartCol,
                              cols.timeEndCol, cols.subjectCol, cols.teacherCol,
                              cols.classroomCol, cols.changeTypeCol,
                              cols.originalSubjectCol>>)
         THEN skip
       ELSE LET parsed == ParseDate("02.01.2006", TrimSpace(row[cols.dateCol + 1]))
                changeType == ClientChangeType(TrimSpace(ToLower(row[cols.changeTypeCol + 1])))
            IN IF parsed.err THEN skip
               ELSE IF changeType = "unknown" THEN skip
               ELSE IF cols.teacherCol = -1 \/ cols.classroomCol = -1
                 THEN [panic |-> TRUE, new |-> <<>>]
               ELSE LET record == ChangeRecord(TrimSpace(row[cols.groupCol + 1]),
                                               parsed.date,
                                               TrimSpace(row[cols.timeStartCol + 1]),
                                               TrimSpace(row[cols.timeEndCol + 1]),
                                               TrimSpace(row[cols.subjectCol + 1]),
                                               TrimSpace(row[cols.teacherCol + 1]),
                                               TrimSpace(row[cols.classroomCol + 1]),
                                               changeType,
                                               OptionalCell(row, cols.originalSubjectCol))
                    IN IF record.GroupName = <<>> \/ record.Subject = <<>>
                         THEN skip
                         ELSE [panic |-> FALSE, new |-> <<record>>]

\* ---- the corrections tables handed to the parsers ----

ChangeHeaderPool ==
    { <<"group", "date", "start_a", "subject", "kind">>,
      <<"group", "date", "start_a", "end_ya", "subject", "teacher", "room", "kind", "orig">>,
      <<"group", "date", "start_a", "end_ya", "subject", "kind">>,
      <<"group", "date", "start_o", "subject", "kind">>,
      <<"group", "date", "start_o", "subject", "kind", "end_e", "teacher", "room">>,
      <<"group", "date", "start_o", "subject", "orig", "kind">>,
      <<"group", "date", "start_a">> }

ChangeLine(group, date, start, end, subject, teacher, room, kind, orig) ==
    [group |-> group, date |-> date, start |-> start, end |-> end,
     subject |-> subject, teacher |-> teacher, room |-> room, kind |-> kind,
     orig |-> orig]

\* what the data rows say, before they are laid out under a header
ChangeLinePool ==
    { ChangeLine(Text("G1"), Text("23.06.2025"), Text("09:00"), Text("09:45"),
                 Text("Physics"), Text("Jones"), Text("202"), CellOtmena, <<>>),
      ChangeLine(<<" ", "G2">>, <<"2025", "-", "06", "-", "24">>, Text("10:45"),
                 Text("11:30"), Text("Math"), Text("Smith"), Text("101"), CellZamena,
                 Text("Physics")),
      ChangeLine(Text("G1"), Text("24.06.2025"), Text("09:00"), Text("09:45"),
                 Text("Math"), Text("Smith"), Text("101"), CellPerenos, <<>>),
      ChangeLine(Text("G1"), Text("23.06.2025"), Text("10:45"), Text("11:30"),
                 Text("Math"), Text("Smith"), Text("101"), CellCancelled, <<>>),
      ChangeLine(Text("G1"), Text("bad"), Text("09:00"), Text("09:45"),
                 Text("Physics"), Text("Jones"), Text("202"), CellOtmena, <<>>),
      ChangeLine(Text("G1"), Text("23.06.2025"), Text("09:00"), Text("09:45"),
                 <<" ">>, Text("Jones"), Text("202"), CellOtmena, <<>>) }

ChangeCell(line, col) ==
    CASE col = "group" -> line.group
      [] col = "date" -> line.date
      [] col \in {"start_a", "start_o"} -> line.start
      [] col \in {"end_ya", "end_e"} -> line.end
      [] col = "subject" -> line.subject
      [] col = "teacher" -> line.teacher
      [] col = "room" -> line.room
      [] col = "kind" -> line.kind
      [] col = "orig" -> line.orig

ChangeHeaderRow(cols) == [k \in 1..Len(cols) |-> HeaderText(cols[k])]

\* a line laid out under the header, whole or cut after cell n
ChangeDataRow(cols, line, n) ==
    [k \in 1..(IF n < Len(cols) THEN n ELSE Len(cols)) |-> ChangeCell(line, cols[k])]

ChangeRowPool(cols) ==
    { ChangeDataRow(cols, line, n) : line \in ChangeLinePool, n \in {5, Len(cols)} }

IsChangeGrid(grid) ==
    \E cols \in ChangeHeaderPool :
        \E body \in SeqsUpTo(ChangeRowPool(cols), MaxChangeRows) :
            grid = <<ChangeHeaderRow(cols)>> \o body

InitChanges ==
    /\ chParser \in {"service", "gsheets"}
    /\ \/ IsChangeGrid(chCsv)
       \/ chCsv = <<>>
    /\ chpc = "start"
    /\ chCols = NoColumns
    /\ chIdx = 0
    /\ chRecords = <<>>
    /\ chErr = "none"

IdleChanges ==
    /\ chParser = "none"
    /\ chCsv = <<>>
    /\ chpc = "off"
    /\ chCols = NoColumns
    /\ chIdx = 0
    /\ chRecords = <<>>
    /\ chErr = "none"

ChangesError(err) ==
    /\ chpc' = "done"
    /\ chErr' = err
    /\ UNCHANGED <<chParser, chCsv, chCols, chIdx, chRecords>>

\* Service.parseChangeRecords up to the loop over the data rows
Service_parseChangeRecords_Header ==
    /\ chParser = "service"
    /\ chpc = "start"
    /\ IF Len(chCsv) < 2 THEN ChangesError("too_few_rows")
       ELSE \E cols \in ServiceColumns(chCsv[1]) :
              IF cols.groupCol = -1 \/ cols.dateCol = -1 \/ cols.timeStartCol = -1
                 \/ cols.subjectCol = -1
                THEN ChangesError("missing_columns")
                ELSE /\ chpc' = "rows"
                     /\ chCols' = cols
                     /\ chIdx' = 1
                     /\ UNCHANGED <<chParser, chCsv, chRecords, chErr>>
    /\ UNCHANGED notChanges

\* one iteration of "for i := 1; i < len(csvRecords); i++"
Service_parseChangeRecords_Row ==
    /\ chParser = "service"
    /\ chpc = "rows"
    /\ chIdx < Len(chCsv)
    /\ chRecords' = chRecords \o ServiceParseRow(chCsv[chIdx + 1], chCols)
    /\ chIdx' = chIdx + 1
    /\ UNCHANGED <<chParser, chCsv, chpc, chCols, chErr>>
    /\ UNCHANGED notChanges

\* "return records, nil"
Service_parseChangeRecords_Return ==
    /\ chParser = "service"
    /\ chpc = "rows"
    /\ chIdx >= Len(chCsv)
    /\ chpc' = "done"
    /\ chErr' = "nil"
    /\ UNCHANGED <<chParser, chCsv, chCols, chIdx, chRecords>>
    /\ UNCHANGED notChanges

\* Client.ParseChangeRecords up to the loop over the data rows
Client_ParseChangeRecords_Header ==
    /\ chParser = "gsheets"
    /\ chpc = "start"
    /\ IF Len(chCsv) < 2 THEN ChangesError("too_few_rows")
       ELSE LET cols == ClientColumns(chCsv[1])
            IN IF cols.groupCol = -1 \/ cols.dateCol = -1 \/ cols.timeStartCol = -1
                  \/ cols.timeEndCol = -1 \/ cols.subjectCol = -1
                  \/ cols.changeTypeCol = -1
                 THEN ChangesError("missing_columns")
                 ELSE /\ chpc' = "rows"
                      /\ chCols' = cols
                      /\ chIdx' = 1
                      /\ UNCHANGED <<chParser, chCsv, chRecords, chErr>>
    /\ UNCHANGED notChanges

\* one iteration of "for rowIndex, row := range csvRecords[1:]"
Client_ParseChangeRecords_Row ==
    /\ chParser = "gsheets"
    /\ chpc = "rows"
    /\ chIdx < Len(chCsv)
    /\ LET out == ClientParseRow(chCsv[chIdx + 1], chCols)
       IN IF out.panic
            THEN /\ chpc' = "done"
                 /\ chErr' = "panic"
                 /\ UNCHANGED <<chIdx, chRecords>>
            ELSE /\ chRecords' = chRecords \o out.new
                 /\ chIdx' = chIdx + 1
                 /\ UNCHANGED <<chpc, chErr>>
    /\ UNCHANGED <<chParser, chCsv, chCols>>
    /\ UNCHANGED notChanges

\* "return records, nil"
Client_ParseChangeRecords_Return ==
    /\ chParser = "gsheets"
    /\ chpc = "rows"
    /\ chIdx >= Len(chCsv)
    /\ chpc' = "done"
    /\ chErr' = "nil"
    /\ UNCHANGED <<chParser, chCsv, chCols, chIdx, chRecords>>
    /\ UNCHANGED notChanges

NextChanges ==
    \/ Service_parseChangeRecords_Header
    \/ Service_parseChangeRecords_Row
    \/ Service_parseChangeRecords_Return
    \/ Client_ParseChangeRecords_Header
    \/ Client_ParseChangeRecords_Row
    \/ Client_ParseChangeRecords_Return

----------------------------------------------------------------------------
\* Correction cycle: scraper.Service.ScrapeScheduleChanges

\* the records a fetched corrections table may parse to
CycleRecordPool ==
    { BaseRecord,
      ChangeRecord("G1", Date1, "09:00", "", "Physics", "Jones", "202", "cancellation", ""),
      ChangeRecord("G2", Date1, "09:00", "09:45", "Math", "Smith", "101", "addition", "") }

NewChangeID(n) == "u" \o ToString(n)

InitCycle ==
    /\ cpc = "idle"
    /\ lastChangeHash = NoHash
    /\ changeRecords = <<>>
    /\ ci = 1
    /\ createdChanges = <<>>
    /\ scheduleChanges = {}
    /\ notified = {}
    /\ nextChangeId = 1
    /\ cresult = "none"
    /\ cexit = "none"
    /\ notifyFailed = {}

IdleCycle ==
    /\ cpc = "off"
    /\ lastChangeHash = NoHash
    /\ changeRecords = <<>>
    /\ ci = 1
    /\ createdChanges = <<>>
    /\ scheduleChanges = {}
    /\ notified = {}
    /\ nextChangeId = 1
    /\ cresult = "none"
    /\ cexit = "none"
    /\ notifyFailed = {}

\* the cycle returns: its locals are gone
CycleReturn(res, exit) ==
    /\ cpc' = "idle"
    /\ changeRecords' = <<>>
    /\ ci' = 1
    /\ createdChanges' = <<>>
    /\ cresult' = res
    /\ cexit' = exit

\* steps 1-4: request the site, find the link, export the table, parse it.
\* A transport, status, HTML or parse error returns the error; a missing
\* link or a failed export returns nil; else the parsed records are kept.
ScrapeScheduleChanges_FetchParse ==
    /\ cpc = "idle"
    /\ pc = "idle"
    /\ \/ /\ CycleReturn("err", "fetch_or_parse_error")
          /\ UNCHANGED <<lastChangeHash, scheduleChanges, notified, nextChangeId>>
       \/ /\ CycleReturn("nil", "no_table")
          /\ UNCHANGED <<lastChangeHash, scheduleChanges, notified, nextChangeId>>
       \/ \E recs \in SeqsUpTo(CycleRecordPool, MaxParsed) :
             /\ nextChangeId + Len(recs) - 1 <= MaxChangeId
             /\ nextRowId + Len(recs) - 1 <= MaxRowId
             /\ cpc' = "parsed"
             /\ changeRecords' = recs
             /\ UNCHANGED <<lastChangeHash, ci, createdChanges, scheduleChanges,
                            notified, nextChangeId, cresult, cexit>>
    /\ UNCHANGED notifyFailed
    /\ UNCHANGED <<mergeVars, notMergeNorCycle>>

\* variant: the cycle goes on whatever the stored fingerprint is
ScrapeScheduleChanges_Compare_NoGate ==
    /\ cpc = "parsed"
    /\ lastChangeHash' = calculateDataHash(changeRecords)
    /\ cpc' = "create"
    /\ ci' = 1
    /\ UNCHANGED <<changeRecords, createdChanges, scheduleChanges, notified,
                   nextChangeId, cresult, cexit>>
    /\ UNCHANGED notifyFailed
    /\ UNCHANGED <<mergeVars, notMergeNorCycle>>

\* step 5: compare the fingerprint with the stored one; equal: return nil;
\* else store the new fingerprint and go on
ScrapeScheduleChanges_Compare ==
    /\ cpc = "parsed"
    /\ LET currentHash == calculateDataHash(changeRecords)
       IN IF currentHash = lastChangeHash
            THEN /\ CycleReturn("nil", "same_hash")
                 /\ UNCHANGED <<lastChangeHash, scheduleChanges, notified, nextChangeId>>
            ELSE /\ lastChangeHash' = currentHash
                 /\ cpc' = "create"
                 /\ ci' = 1
                 /\ UNCHANGED <<changeRecords, createdChanges, scheduleChanges,
                                notified, nextChangeId, cresult, cexit>>
    /\ UNCHANGED notifyFailed
    /\ UNCHANGED <<mergeVars, notMergeNorCycle>>

\* step 7: one iteration of the loop creating schedule_changes records; a
\* record whose CreateChange fails is logged and left out of createdChanges
ScrapeScheduleChanges_CreateChange ==
    /\ cpc = "create"
    /\ ci <= Len(changeRecords)
    /\ LET record == changeRecords[ci]
           change == ScheduleChange(NewChangeID(nextChangeId), record.GroupName,
                                    record.Date, record.TimeStart, record.TimeEnd,
                                    record.Subject, record.Teacher, record.Classroom,
                                    record.ChangeType, record.OriginalSubject)
       IN \/ /\ scheduleChanges' = scheduleChanges \cup {change}
             /\ createdChanges' = Append(createdChanges, change)
          \/ /\ scheduleChanges' = scheduleChanges
             /\ createdChanges' = createdChanges
    /\ nextChangeId' = nextChangeId + 1
    /\ ci' = ci + 1
    /\ UNCHANGED <<cpc, lastChangeHash, changeRecords, notified, cresult, cexit>>
    /\ UNCHANGED notifyFailed
    /\ UNCHANGED <<mergeVars, notMergeNorCycle>>

\* step 8: ApplyChanges is called when something was created
ScrapeScheduleChanges_CallApply ==
    /\ cpc = "create"
    /\ ci > Len(changeRecords)
    /\ IF Len(createdChanges) > 0
         THEN /\ ApplyChanges_Begin(createdChanges)
              /\ cpc' = "applying"
              /\ ci' = ci
         ELSE /\ cpc' = "notify"
              /\ ci' = 1
              /\ UNCHANGED mergeVars
    /\ UNCHANGED <<lastChangeHash, changeRecords, createdChanges, scheduleChanges,
                   notified, nextChangeId, cresult, cexit>>
    /\ UNCHANGED notifyFailed
    /\ UNCHANGED notMergeNorCycle

\* ApplyChanges has returned; its error is only logged
ScrapeScheduleChanges_Applied ==
    /\ cpc = "applying"
    /\ ApplyChanges_Return
    /\ cpc' = "notify"
    /\ ci' = 1
    /\ UNCHANGED <<lastChangeHash, changeRecords, createdChanges, scheduleChanges,
                   notified, nextChangeId, cresult, cexit>>
    /\ UNCHANGED notifyFailed
    /\ UNCHANGED notMergeNorCycle

\* step 9: one iteration of the notification loop; a failure is only logged
ScrapeScheduleChanges_Notify ==
    /\ cpc = "notify"
    /\ ci <= Len(createdChanges)
    /\ notified' = notified \cup {createdChanges[ci].ID}
    /\ \/ notifyFailed' = notifyFailed
       \/ notifyFailed' = notifyFailed \cup {createdChanges[ci].ID}
    /\ ci' = ci + 1
    /\ UNCHANGED <<cpc, lastChangeHash, changeRecords, createdChanges,
                   scheduleChanges, nextChangeId, cresult, cexit>>
    /\ UNCHANGED <<mergeVars, notMergeNorCycle>>

\* the cycle ends with "return nil"
ScrapeScheduleChanges_Done ==
    /\ cpc = "notify"
    /\ ci > Len(createdChanges)
    /\ CycleReturn("nil", "done")
    /\ UNCHANGED <<lastChangeHash, scheduleChanges, notified, nextChangeId>>
    /\ UNCHANGED notifyFailed
    /\ UNCHANGED <<mergeVars, notMergeNorCycle>>

NextCycle ==
    \/ ScrapeScheduleChanges_FetchParse
    \/ ScrapeScheduleChanges_Compare
    \/ ScrapeScheduleChanges_CreateChange
    \/ ScrapeScheduleChanges_CallApply
    \/ ApplyChanges_Step
    \/ ApplyChanges_Commit
    \/ ScrapeScheduleChanges_Applied
    \/ ScrapeScheduleChanges_Notify
    \/ ScrapeScheduleChanges_Done

----------------------------------------------------------------------------
----------------------------------------------------------------------------
\* Timetable cycle (scraper/service.go, ScrapeMainSchedule) from the point
\* where the timetable has been parsed, and the schedule_snapshots table
\* (schedule/repository.go)

\* schedule.ScheduleSnapshot, by its id and its is_active column
ScheduleSnapshot(id, active) == [ID |-> id, IsActive |-> active]

\* INSERT INTO schedule_snapshots (...) VALUES (...)
CreateSnapshot(table, s) == table \cup {s}

\* SELECT ... FROM schedule_snapshots WHERE is_active = true
\* ORDER BY created_at DESC LIMIT 1 (ids grow with created_at)
GetActiveSnapshot(table) ==
    { s \in table : s.IsActive /\ \A t \in table : t.IsActive => t.ID <= s.ID }

InitSnapshot ==
    /\ snapshots = {}
    /\ mpc = "idle"
    /\ nextSnapshotId = 1
    /\ snapshot = 0
    /\ sentNew = {}
    /\ sentNewFailed = {}
    /\ mresult = "none"
    /\ mexit = "none"

IdleSnapshot ==
    /\ snapshots = {}
    /\ mpc = "off"
    /\ nextSnapshotId = 1
    /\ snapshot = 0
    /\ sentNew = {}
    /\ sentNewFailed = {}
    /\ mresult = "none"
    /\ mexit = "none"

\* the cycle returns
MainCycleReturn(res, exit) ==
    /\ mpc' = "idle"
    /\ snapshot' = 0
    /\ mresult' = res
    /\ mexit' = exit

\* steps 1-6 of the cycle: an error up to the JSON encoding returns it; else
\* the snapshot is built with a fresh id and IsActive true and handed to
\* CreateSnapshot, whose error is returned
ScrapeMainSchedule_CreateSnapshot ==
    /\ mpc = "idle"
    /\ nextSnapshotId <= MaxSnapshots
    /\ \/ /\ MainCycleReturn("err", "fetch_or_parse_error")
          /\ UNCHANGED <<snapshots, nextSnapshotId>>
       \/ /\ MainCycleReturn("err", "snapshot_error")
          /\ nextSnapshotId' = nextSnapshotId + 1
          /\ UNCHANGED snapshots
       \/ /\ snapshots' = CreateSnapshot(snapshots, ScheduleSnapshot(nextSnapshotId, TRUE))
          /\ snapshot' = nextSnapshotId
          /\ nextSnapshotId' = nextSnapshotId + 1
          /\ mpc' = "created"
          /\ UNCHANGED <<mresult, mexit>>
    /\ UNCHANGED <<sentNew, sentNewFailed>>
    /\ UNCHANGED notSnapshot

\* variant: the error of the notification is returned
ScrapeMainSchedule_Notify_ReturnError ==
    /\ mpc = "created"
    /\ sentNew' = sentNew \cup {snapshot}
    /\ \/ /\ sentNewFailed' = sentNewFailed
          /\ MainCycleReturn("nil", "done")
       \/ /\ sentNewFailed' = sentNewFailed \cup {snapshot}
          /\ MainCycleReturn("err", "notify_error")
    /\ UNCHANGED <<snapshots, nextSnapshotId>>
    /\ UNCHANGED notSnapshot

\* SendNewScheduleNotification(ctx, snapshot): its error is logged; "return nil"
ScrapeMainSchedule_Notify ==
    /\ mpc = "created"
    /\ sentNew' = sentNew \cup {snapshot}
    /\ \/ sentNewFailed' = sentNewFailed
       \/ sentNewFailed' = sentNewFailed \cup {snapshot}
    /\ MainCycleReturn("nil", "done")
    /\ UNCHANGED <<snapshots, nextSnapshotId>>
    /\ UNCHANGED notSnapshot

NextSnapshot ==
    \/ ScrapeMainSchedule_CreateSnapshot
    \/ ScrapeMainSchedule_Notify

----------------------------------------------------------------------------
----------------------------------------------------------------------------
\* Periodic tasks (scraper/service.go, StartPeriodicScraping)
\*
\* Two goroutines, one per task.  Each calls its cycle once, creates its
\* ticker, and then loops on "select { case <-ticker.C: ... case
\* <-ctx.Done(): return }".  A cycle is called synchronously.  ticker.C is a
\* channel of capacity 1: a tick that finds it full is dropped.  When both
\* cases of the select are ready either one may be taken.

\* time.Saturday
time_Saturday == 6

\* the numbers of the ScrapeScheduleChanges calls the corrections task makes
CycleIds == 1..(MaxTicks + 1)

InitPeriodic ==
    /\ ctx \in {"active", "done"}
    /\ today \in 0..6
    /\ started = FALSE
    /\ mainPc = "off"
    /\ mainPhase = "none"
    /\ mainTicker = "none"
    /\ mainTickerC = 0
    /\ mainTicks = 0
    /\ mainCycles = 0
    /\ chgPc = "off"
    /\ chgPhase = [n \in CycleIds |-> "none"]
    /\ chgWait = 0
    /\ chgTicker = "none"
    /\ chgTickerC = 0
    /\ chgTicks = 0
    /\ chgCycles = 0
    /\ accesses = {}
    /\ mainResult = "none"
    /\ chgResult = "none"

IdlePeriodic ==
    /\ ctx = "active"
    /\ today = 0
    /\ started = FALSE
    /\ mainPc = "off"
    /\ mainPhase = "none"
    /\ mainTicker = "none"
    /\ mainTickerC = 0
    /\ mainTicks = 0
    /\ mainCycles = 0
    /\ chgPc = "off"
    /\ chgPhase = <<>>
    /\ chgWait = 0
    /\ chgTicker = "none"
    /\ chgTickerC = 0
    /\ chgTicks = 0
    /\ chgCycles = 0
    /\ accesses = {}
    /\ mainResult = "none"
    /\ chgResult = "none"

\* goroutine g evaluates s.<field> for every field of the set, and assigns
\* to every field of the set written
Access(g, read, written) ==
    accesses' = accesses \cup { <<g, f, "read">> : f \in read }
                         \cup { <<g, f, "write">> : f \in written }

mainTaskVars == <<mainPc, mainPhase, mainTicker, mainTickerC, mainTicks, mainCycles,
                  mainResult>>
chgTaskVars == <<chgPc, chgPhase, chgWait, chgTicker, chgTickerC, chgTicks, chgCycles,
                 chgResult>>

\* StartPeriodicScraping(ctx): the two "go func() { ... }()" statements
StartPeriodicScraping ==
    /\ ~started
    /\ started' = TRUE
    /\ mainPc' = "start"
    /\ chgPc' = "start"
    /\ UNCHANGED <<ctx, today, mainPhase, mainTicker, mainTickerC, mainTicks, mainCycles,
                   chgPhase, chgWait, chgTicker, chgTickerC, chgTicks, chgCycles, mainResult, chgResult>>
    /\ UNCHANGED accesses
    /\ UNCHANGED notPeriodic

\* the context is cancelled by its owner
Context_Cancel ==
    /\ ctx = "active"
    /\ ctx' = "done"
    /\ UNCHANGED <<today, started, mainTaskVars, chgTaskVars>>
    /\ UNCHANGED accesses
    /\ UNCHANGED notPeriodic

\* midnight: time.Now().Weekday() moves on
Clock_NextDay ==
    /\ today' = (today + 1) % 7
    /\ UNCHANGED <<ctx, started, mainTaskVars, chgTaskVars>>
    /\ UNCHANGED accesses
    /\ UNCHANGED notPeriodic

\* ---- timetable task ----

\* "if err := s.ScrapeMainSchedule(ctx)" at the top of the goroutine
Main_ImmediateRun ==
    /\ mainPc = "start"
    /\ mainPc' = "cycle"
    /\ mainPhase' = "fetch"
    /\ mainCycles' = mainCycles + 1
    /\ UNCHANGED <<ctx, today, started, mainTicker, mainTickerC, mainTicks, chgTaskVars>>
    /\ UNCHANGED <<accesses, mainResult>>
    /\ UNCHANGED notPeriodic

\* ScrapeMainSchedule returns to the goroutine; after the first call the
\* goroutine goes on to time.NewTicker and the select loop
Main_CycleReturn(res) ==
    /\ mainResult' = res
    /\ mainPhase' = "none"
    /\ mainPc' = "select"
    /\ mainTicker' = IF mainTicker = "none" THEN "on" ELSE mainTicker

\* ScrapeMainSchedule up to ParseScheduleRecords: HTTP requests under the
\* 30 s request timeout and the client timeouts; an error returns
Main_Scrape_Fetch ==
    /\ mainPc = "cycle"
    /\ mainPhase = "fetch"
    /\ \/ /\ mainPhase' = "store"
          /\ UNCHANGED <<mainPc, mainTicker, mainResult>>
       \/ \* an error of a request, a status other than 200, no link on the
          \* page, a parse error: "return fmt.Errorf(...)"
          Main_CycleReturn("error")
    /\ UNCHANGED <<ctx, today, started, mainTickerC, mainTicks, mainCycles, chgTaskVars>>
    /\ Access("main", {"baseURL", "httpClient", "gsheetClient"}, {})
    /\ UNCHANGED notPeriodic

\* variant: a stored timetable snapshot clears Service.lastChangeHash
Main_Scrape_Store_ResetsHash ==
    /\ mainPc = "cycle"
    /\ mainPhase = "store"
    /\ \E res \in {"nil", "error"} : Main_CycleReturn(res)
    /\ UNCHANGED <<ctx, today, started, mainTickerC, mainTicks, mainCycles, chgTaskVars>>
    /\ Access("main", {"scheduleRepo", "notificationService"}, {"lastChangeHash"})
    /\ UNCHANGED notPeriodic

\* CreateSnapshot(ctx, ...) and SendNewScheduleNotification(ctx, ...): calls
\* on the task's context, which carries no deadline
Main_Scrape_Store ==
    /\ mainPc = "cycle"
    /\ mainPhase = "store"
    /\ \/ \* CreateSnapshot fails: "return fmt.Errorf(...)"
          Main_CycleReturn("error")
       \/ \* the snapshot is stored; a notification error is logged: "return nil"
          Main_CycleReturn("nil")
    /\ UNCHANGED <<ctx, today, started, mainTickerC, mainTicks, mainCycles, chgTaskVars>>
    /\ Access("main", {"scheduleRepo", "notificationService"}, {})
    /\ UNCHANGED notPeriodic

\* the runtime sends a tick on ticker.C (dropped when the channel is full)
Main_TickerFires ==
    /\ mainTicker = "on"
    /\ mainTickerC = 0
    /\ mainTickerC' = 1
    /\ UNCHANGED <<ctx, today, started, mainPc, mainPhase, mainTicker, mainTicks,
                   mainCycles, chgTaskVars>>
    /\ UNCHANGED <<accesses, mainResult>>
    /\ UNCHANGED notPeriodic

\* variant: the cycle runs on every tick, whatever the weekday
Main_Tick_AnyDay ==
    /\ mainPc = "select"
    /\ mainTickerC = 1
    /\ mainTicks < MaxTicks
    /\ mainTickerC' = 0
    /\ mainTicks' = mainTicks + 1
    /\ mainPc' = "cycle"
    /\ mainPhase' = "fetch"
    /\ mainCycles' = mainCycles + 1
    /\ UNCHANGED <<ctx, today, started, mainTicker, chgTaskVars>>
    /\ UNCHANGED <<accesses, mainResult>>
    /\ UNCHANGED notPeriodic

\* "case <-ticker.C": the cycle runs when today is Saturday
Main_Tick ==
    /\ mainPc = "select"
    /\ mainTickerC = 1
    /\ mainTicks < MaxTicks
    /\ mainTickerC' = 0
    /\ mainTicks' = mainTicks + 1
    /\ IF today = time_Saturday
         THEN /\ mainPc' = "cycle"
              /\ mainPhase' = "fetch"
              /\ mainCycles' = mainCycles + 1
         ELSE UNCHANGED <<mainPc, mainPhase, mainCycles>>
    /\ UNCHANGED <<ctx, today, started, mainTicker, chgTaskVars>>
    /\ UNCHANGED <<accesses, mainResult>>
    /\ UNCHANGED notPeriodic

\* "case <-ctx.Done(): return", with the deferred ticker.Stop()
Main_Done ==
    /\ mainPc = "select"
    /\ ctx = "done"
    /\ mainPc' = "stopped"
    /\ mainTicker' = "stopped"
    /\ UNCHANGED <<ctx, today, started, mainPhase, mainTickerC, mainTicks, mainCycles,
                   chgTaskVars>>
    /\ UNCHANGED <<accesses, mainResult>>
    /\ UNCHANGED notPeriodic

\* ---- corrections task ----

\* "if err := s.ScrapeScheduleChanges(ctx)" at the top of the goroutine
Changes_ImmediateRun ==
    /\ chgPc = "start"
    /\ chgPc' = "cycle"
    /\ chgCycles' = chgCycles + 1
    /\ chgWait' = chgCycles + 1
    /\ chgPhase' = [chgPhase EXCEPT ![chgCycles + 1] = "fetch"]
    /\ UNCHANGED <<ctx, today, started, chgTicker, chgTickerC, chgTicks, mainTaskVars>>
    /\ UNCHANGED <<accesses, chgResult>>
    /\ UNCHANGED notPeriodic

\* variant: a call that returns an error ends the goroutine
Changes_CycleReturn_StopOnError(n, res) ==
    /\ chgResult' = res
    /\ chgPhase' = [chgPhase EXCEPT ![n] = "returned"]
    /\ IF chgWait = n
         THEN /\ chgPc' = IF res = "error" THEN "stopped" ELSE "select"
              /\ chgWait' = 0
              /\ chgTicker' = IF chgTicker = "none" THEN "on" ELSE chgTicker
         ELSE UNCHANGED <<chgPc, chgWait, chgTicker>>

\* call number n of ScrapeScheduleChanges returns; the goroutine that waits
\* for it goes on (after the first call: to time.NewTicker) to the select
Changes_CycleReturn(n, res) ==
    /\ chgResult' = res
    /\ chgPhase' = [chgPhase EXCEPT ![n] = "returned"]
    /\ IF chgWait = n
         THEN /\ chgPc' = "select"
              /\ chgWait' = 0
              /\ chgTicker' = IF chgTicker = "none" THEN "on" ELSE chgTicker
         ELSE UNCHANGED <<chgPc, chgWait, chgTicker>>

\* ScrapeScheduleChanges up to the fingerprint comparison: HTTP requests
\* under the 30 s timeouts; an error, a missing link and an unchanged
\* fingerprint return
Changes_Scrape_Fetch(n) ==
    /\ chgPhase[n] = "fetch"
    /\ \/ \* "s.lastChangeHash = currentHash": new corrections
          /\ chgPhase' = [chgPhase EXCEPT ![n] = "create"]
          /\ Access("changes", {"baseURL", "httpClient", "gsheetClient", "lastChangeHash"},
                    {"lastChangeHash"})
          /\ UNCHANGED <<chgPc, chgWait, chgTicker, chgResult>>
       \/ \* "if currentHash == s.lastChangeHash { return nil }"
          /\ Changes_CycleReturn(n, "nil")
          /\ Access("changes", {"baseURL", "httpClient", "gsheetClient", "lastChangeHash"}, {})
       \/ \* an error before the comparison: "return fmt.Errorf(...)"
          /\ Changes_CycleReturn(n, "error")
          /\ Access("changes", {"baseURL", "httpClient", "gsheetClient"}, {})
       \/ \* no link to the corrections table, the export failed: "return nil"
          /\ Changes_CycleReturn(n, "nil")
          /\ Access("changes", {"baseURL", "httpClient", "gsheetClient"}, {})
    /\ UNCHANGED <<ctx, today, started, chgTickerC, chgTicks, chgCycles, mainTaskVars>>
    /\ UNCHANGED notPeriodic

\* the loop of CreateChange(ctx, change) calls; with no Change created both
\* ApplyChanges and the notification loop are passed over
Changes_Scrape_Create(n) ==
    /\ chgPhase[n] = "create"
    /\ \/ /\ chgPhase' = [chgPhase EXCEPT ![n] = "apply"]
          /\ UNCHANGED <<chgPc, chgWait, chgTicker, chgResult>>
       \/ Changes_CycleReturn(n, "nil")
    /\ UNCHANGED <<ctx, today, started, chgTickerC, chgTicks, chgCycles, mainTaskVars>>
    /\ Access("changes", {"scheduleRepo"}, {})
    /\ UNCHANGED notPeriodic

\* s.changeService.ApplyChanges(ctx, createdChanges) returns (an error is logged)
Changes_Scrape_Apply(n) ==
    /\ chgPhase[n] = "apply"
    /\ chgPhase' = [chgPhase EXCEPT ![n] = "notify"]
    /\ UNCHANGED <<ctx, today, started, chgPc, chgWait, chgTicker, chgTickerC, chgTicks,
                   chgCycles, mainTaskVars>>
    /\ Access("changes", {"changeService"}, {})
    /\ UNCHANGED chgResult
    /\ UNCHANGED notPeriodic

\* the loop of SendScheduleChangeNotification(ctx, &change) calls, "return nil"
Changes_Scrape_Notify(n) ==
    /\ chgPhase[n] = "notify"
    /\ Changes_CycleReturn(n, "nil")
    /\ UNCHANGED <<ctx, today, started, chgTickerC, chgTicks, chgCycles, mainTaskVars>>
    /\ Access("changes", {"notificationService"}, {})
    /\ UNCHANGED notPeriodic

\* the runtime sends a tick on ticker.C (dropped when the channel is full)
Changes_TickerFires ==
    /\ chgTicker = "on"
    /\ chgTickerC = 0
    /\ chgTickerC' = 1
    /\ UNCHANGED <<ctx, today, started, chgPc, chgPhase, chgWait, chgTicker, chgTicks,
                   chgCycles, mainTaskVars>>
    /\ UNCHANGED <<accesses, chgResult>>
    /\ UNCHANGED notPeriodic

\* variant: the cycle is started with a go statement and the loop goes
\* straight back to the select
Changes_Tick_Detached ==
    /\ chgPc = "select"
    /\ chgTickerC = 1
    /\ chgTicks < MaxTicks
    /\ chgTickerC' = 0
    /\ chgTicks' = chgTicks + 1
    /\ chgCycles' = chgCycles + 1
    /\ chgPhase' = [chgPhase EXCEPT ![chgCycles + 1] = "fetch"]
    /\ UNCHANGED <<ctx, today, started, chgPc, chgWait, chgTicker, mainTaskVars>>
    /\ UNCHANGED <<accesses, chgResult>>
    /\ UNCHANGED notPeriodic

\* "case <-ticker.C": s.ScrapeScheduleChanges(ctx) is called
Changes_Tick ==
    /\ chgPc = "select"
    /\ chgTickerC = 1
    /\ chgTicks < MaxTicks
    /\ chgTickerC' = 0
    /\ chgTicks' = chgTicks + 1
    /\ chgPc' = "cycle"
    /\ chgCycles' = chgCycles + 1
    /\ chgWait' = chgCycles + 1
    /\ chgPhase' = [chgPhase EXCEPT ![chgCycles + 1] = "fetch"]
    /\ UNCHANGED <<ctx, today, started, chgTicker, mainTaskVars>>
    /\ UNCHANGED <<accesses, chgResult>>
    /\ UNCHANGED notPeriodic

\* "case <-ctx.Done(): return", with the deferred ticker.Stop()
Changes_Done ==
    /\ chgPc = "select"
    /\ ctx = "done"
    /\ chgPc' = "stopped"
    /\ chgTicker' = "stopped"
    /\ UNCHANGED <<ctx, today, started, chgPhase, chgWait, chgTickerC, chgTicks,
                   chgCycles, mainTaskVars>>
    /\ UNCHANGED <<accesses, chgResult>>
    /\ UNCHANGED notPeriodic

MainTask ==
    \/ Main_ImmediateRun
    \/ Main_Scrape_Fetch
    \/ Main_Scrape_Store
    \/ Main_Tick
    \/ Main_Done

ChangesTask ==
    \/ Changes_ImmediateRun
    \/ \E n \in CycleIds : Changes_Scrape_Fetch(n)
    \/ \E n \in CycleIds : Changes_Scrape_Create(n)
    \/ \E n \in CycleIds : Changes_Scrape_Apply(n)
    \/ \E n \in CycleIds : Changes_Scrape_Notify(n)
    \/ Changes_Tick
    \/ Changes_Done

NextPeriodic ==
    \/ StartPeriodicScraping
    \/ Context_Cancel
    \/ Clock_NextDay
    \/ Main_TickerFires
    \/ Changes_TickerFires
    \/ MainTask
    \/ ChangesTask

PeriodicInit ==
    InitPeriodic /\ IdleMerge /\ IdleHash /\ IdleCycle /\ IdleParse /\ IdleChanges
    /\ IdleSnapshot

SpecPeriodic == PeriodicInit /\ [][NextPeriodic]_vars

\* Scheduling: the Go scheduler runs every runnable goroutine, the runtime
\* keeps the tickers firing, and an HTTP request ends at its timeout at the
\* latest.  Nothing bounds the calls made on the task's own context
\* (CreateSnapshot, CreateChange, ApplyChanges, the notifications): they
\* get no fairness.
PeriodicFairness ==
    /\ WF_vars(StartPeriodicScraping)
    /\ WF_vars(Main_TickerFires)
    /\ WF_vars(Changes_TickerFires)
    /\ WF_vars(Main_ImmediateRun)
    /\ WF_vars(Changes_ImmediateRun)
    /\ WF_vars(Main_Scrape_Fetch)
    /\ WF_vars(\E n \in CycleIds : Changes_Scrape_Fetch(n))
    /\ WF_vars(Main_Tick \/ Main_Done)
    /\ WF_vars(Changes_Tick \/ Changes_Done)

SpecPeriodicLive == PeriodicInit /\ [][NextPeriodic]_vars /\ PeriodicFairness

----------------------------------------------------------------------------
\* Specifications of the other components

SnapshotInit ==
    InitSnapshot /\ IdleMerge /\ IdleHash /\ IdleCycle /\ IdleParse /\ IdleChanges
    /\ IdlePeriodic

SpecSnapshot == SnapshotInit /\ [][NextSnapshot]_vars

\* either cycle, each on its own: a correction cycle or a timetable cycle
SinksInit ==
    \/ /\ InitMerge /\ IdleHash /\ InitCycle /\ IdleParse /\ IdleChanges
       /\ IdlePeriodic /\ IdleSnapshot
    \/ /\ InitSnapshot /\ IdleMerge /\ IdleHash /\ IdleCycle /\ IdleParse
       /\ IdleChanges /\ IdlePeriodic

NextSinks == NextCycle \/ NextSnapshot

SpecSinks == SinksInit /\ [][NextSinks]_vars

HashInit == InitHash /\ IdleMerge /\ IdleCycle /\ IdleParse /\ IdleChanges /\ IdlePeriodic /\ IdleSnapshot

SpecHash == HashInit /\ [][NextHash]_vars

CycleInit == InitMerge /\ IdleHash /\ InitCycle /\ IdleParse /\ IdleChanges /\ IdlePeriodic /\ IdleSnapshot

SpecCycle == CycleInit /\ [][NextCycle]_vars

ParseInit == InitParse /\ IdleMerge /\ IdleHash /\ IdleCycle /\ IdleChanges /\ IdlePeriodic /\ IdleSnapshot

SpecParse == ParseInit /\ [][NextParse]_vars

ChangesInit == InitChanges /\ IdleMerge /\ IdleHash /\ IdleCycle /\ IdleParse /\ IdlePeriodic /\ IdleSnapshot

SpecChanges == ChangesInit /\ [][NextChanges]_vars

----------------------------------------------------------------------------
Init == InitMerge /\ IdleHash /\ IdleCycle /\ IdleParse /\ IdleChanges /\ IdlePeriodic /\ IdleSnapshot

Next ==
    \/ ApplyChanges
    \/ ApplyChanges_Step
    \/ ApplyChanges_Commit
    \/ ApplyChanges_Returned
    \/ Repository_UpdateCurrentSchedule

Spec == Init /\ [][Next]_vars

----------------------------------------------------------------------------
\* Properties of the merge engine

KeyRows(table, c) ==
    { r \in table : r.GroupName = c.GroupName /\ r.Date = c.Date
                    /\ r.TimeStart = c.TimeStart }

ViewNext == IF repoUsesTx THEN txRows' ELSE rows'

\* C1: on an initially empty store, running ApplyChanges(S) a second time
\* right after a first run leaves the same rows as the first run did, rows
\* compared by key, end time, subject, teacher, classroom, provenance tag,
\* provenance reference and active flag (row id set aside), also when S
\* holds several Changes with the same natural key.
C1_ApplyTwiceSameAsOnce ==
    (run1 # NoRun /\ run2 # NoRun) => run2.after = run1.after

C1_Witness ==
    /\ run1 # NoRun /\ run2 # NoRun
    /\ Len(run1.changes) = 2
    /\ run1.changes[1].ID # run1.changes[2].ID
    /\ KeyRows({run1.changes[1]}, run1.changes[2]) # {}
    /\ rows # {}

\* C2: a successfully applied Change whose natural key has no row adds
\* exactly one row for that key, from-correction, active, with the Change's
\* group, date, start time, end time, subject, teacher and classroom; a
\* successfully applied Change whose key has one (active) row leaves the
\* number of rows with that key at one and gives that row the Change's
\* subject, teacher and classroom.
C2_InsertOnceThenUpdateInPlace ==
    [][ (pc = "loop" /\ idx <= Len(changes) /\ idx' = idx + 1 /\ idx \in applied')
        => LET c == changes[idx]
               before == KeyRows(View, c)
               after == KeyRows(ViewNext, c)
           IN /\ before = {} =>
                   /\ Cardinality(ViewNext) = Cardinality(View) + 1
                   /\ View \subseteq ViewNext
                   /\ \E r \in after :
                         /\ after = {r}
                         /\ r.ID \notin {q.ID : q \in View}
                         /\ r.GroupName = c.GroupName /\ r.Date = c.Date
                         /\ r.TimeStart = c.TimeStart /\ r.TimeEnd = c.TimeEnd
                         /\ r.Subject = c.Subject /\ r.Teacher = c.Teacher
                         /\ r.Classroom = c.Classroom
                         /\ r.SourceType = "change" /\ r.IsActive
              /\ (Cardinality(before) = 1 /\ \A q \in before : q.IsActive) =>
                   /\ Cardinality(ViewNext) = Cardinality(View)
                   /\ \E r \in after :
                         /\ after = {r}
                         /\ r.ID \in {q.ID : q \in before}
                         /\ r.Subject = c.Subject /\ r.Teacher = c.Teacher
                         /\ r.Classroom = c.Classroom
      ]_vars

C2_Witness ==
    /\ pc = "loop" /\ rowsAtBegin = {}
    /\ idx = 3 /\ applied = {1, 2} /\ lastStmt = "update"
    /\ changes[1].ID # changes[2].ID
    /\ changes[1].Classroom # changes[2].Classroom
    /\ \E r \in View : KeyRows(View, changes[2]) = {r} /\ r.Subject = changes[2].Subject

\* C3: in every reachable state the table holds at most one active row per
\* natural key (group, date, start time), so a query by group and date
\* never returns two entries with the same start time.
C3_OneActiveRowPerKey ==
    /\ \A r1, r2 \in rows :
          (r1.IsActive /\ r2.IsActive /\ KeyRows({r1}, r2) # {}) => r1 = r2
    /\ \A g \in {"G1", "G2"}, d \in {Date1, Date2} :
          \A r1, r2 \in GetCurrentScheduleForGroup(rows, g, d) :
             r1.TimeStart = r2.TimeStart => r1 = r2

\* C4: the reads and writes of one ApplyChanges call happen inside the
\* transaction the call opened: no insert or update of the call is visible
\* in the committed table (to a reader's query) before the call commits,
\* and none persists when the commit fails.
C4_WritesInsideOneTransaction ==
    /\ pc = "loop" =>
          /\ rows = rowsAtBegin
          /\ \A g \in {"G1", "G2"}, d \in {Date1, Date2} :
                GetCurrentScheduleForGroup(rows, g, d)
                   = GetCurrentScheduleForGroup(rowsAtBegin, g, d)
    /\ (pc = "returned" /\ result = "commit_err") => rows = rowsAtBegin

\* C5: when the storage operation of one Change fails, every remaining
\* Change is still attempted and the commit is still issued; the call
\* returns an error only when BeginTx or Commit fails; when it returns nil,
\* every successfully applied Change is present in the store.
C5_FailureDoesNotAbortBatch ==
    /\ pc = "returned" => result \in {"nil", "begin_err", "commit_err"}
    /\ (pc = "returned" /\ result # "begin_err") =>
          /\ idx = Len(changes) + 1
          /\ applied \cup failed = 1..Len(changes)
    /\ (pc = "returned" /\ result = "nil") =>
          \A i \in applied :
             \E r \in KeyRows(rows, changes[i]) :
                /\ r.IsActive
                /\ r.SourceType = "change"
                /\ (\A j \in applied : j > i => KeyRows({changes[i]}, changes[j]) = {})
                      => /\ r.Subject = changes[i].Subject
                         /\ r.Teacher = changes[i].Teacher
                         /\ r.Classroom = changes[i].Classroom
                         /\ r.SourceID = changes[i].ID

C5_Witness ==
    /\ pc = "returned" /\ result = "nil"
    /\ \E i \in failed, j \in applied : i < j
    /\ \E j \in applied : KeyRows(rows, changes[j]) # {}

----------------------------------------------------------------------------
\* Properties of the change-set fingerprint

\* the number of occurrences of record r in slice q
Occurrences(q, r) == Cardinality({i \in 1..Len(q) : q[i] = r})

SameMultiset(p, q) ==
    \A r \in RecordPool : Occurrences(p, r) = Occurrences(q, r)

\* C6: the fingerprint of a Change slice equals the fingerprint of every
\* permutation of the slice.
C6_FingerprintIgnoresOrder ==
    (hpc = "done" /\ SameMultiset(hashA, hashB)) => fpA = fpB

\* C7: two Change slices that are not the same multiset of Change values,
\* in particular two slices differing in one field of one Change, have
\* different fingerprints.
C7_DifferentSetsDifferentFingerprints ==
    (hpc = "done" /\ ~SameMultiset(hashA, hashB)) => fpA # fpB

----------------------------------------------------------------------------
\* Properties of the correction cycle

\* C8: a correction cycle whose parsed change set has the stored last-seen
\* fingerprint returns nil at once: no schedule_changes record is created,
\* ApplyChanges is not called, no notification is sent, and the stored
\* fingerprint and the current_schedule table stay as they are.
C8_SameFingerprintSkipsCycle ==
    [][ (cpc = "parsed" /\ calculateDataHash(changeRecords) = lastChangeHash)
        => /\ cpc' = "idle"
           /\ cresult' = "nil"
           /\ scheduleChanges' = scheduleChanges
           /\ nextChangeId' = nextChangeId
           /\ pc = "idle" /\ pc' = "idle"
           /\ notified' = notified
           /\ lastChangeHash' = lastChangeHash
           /\ rows' = rows
           /\ txRows' = txRows
      ]_vars

C8_Witness ==
    /\ cpc = "idle" /\ cexit = "same_hash" /\ cresult = "nil"
    /\ lastChangeHash # NoHash
    /\ rows # {}
    /\ scheduleChanges # {}
    /\ notified # {}

----------------------------------------------------------------------------
\* Properties of the timetable parser

GroupCount(grid) == Len(GroupNamesFrom(grid[2], 2))

\* the three layout preconditions
LayoutOK(grid) ==
    /\ Len(grid) >= 5
    /\ GroupCount(grid) >= 1
    /\ Len(grid[5]) >= 4 * GroupCount(grid)

\* a wide-format grid: the layout preconditions hold and every body row is
\* empty, a day marker, or has the ordinal cell and four cells per group
WideFormat(grid) ==
    /\ LayoutOK(grid)
    /\ \A k \in 6..Len(grid) :
          \/ IsEmptyRow(grid[k])
          \/ IsDayMarkerRow(grid[k])
          \/ Len(grid[k]) >= 1 + 4 * GroupCount(grid)

\* a lesson row: a full-width body row, not a day marker, whose first cell
\* is an ordinal
IsLessonRow(grid, k) ==
    /\ k >= 6 /\ k <= Len(grid)
    /\ ~IsDayMarkerRow(grid[k])
    /\ Len(grid[k]) >= 1 + 4 * GroupCount(grid)
    /\ ~Atoi(TrimSpace(grid[k][1])).err

\* the non-empty subject cells (slot 0 of group g's block) of the lesson
\* rows among the first n rows
SubjectCells(grid, n) ==
    { <<k, g>> \in (6..n) \X (0..(GroupCount(grid) - 1)) :
        /\ IsLessonRow(grid, k)
        /\ TrimSpace(grid[k][1 + 4 * g + 1]) # <<>> }

SixDays == weekdays \cup {Saturday}

\* the last day marker before row k names weekday w
FollowsMarkerNaming(grid, k, w) ==
    \E j \in 6..(k - 1) :
        /\ IsDayMarkerRow(grid[j])
        /\ \A m \in (j + 1)..(k - 1) : ~IsDayMarkerRow(grid[m])
        /\ \E dateStr \in {Text("23.06.2025"), Text("28.06.2025")} :
              grid[j][1] = DayMarkerCell(w, dateStr)

\* entry n of w's bell table
BellEntry(w, n) == IF w = Saturday THEN saturdayTimings[n] ELSE weekdayTimings[n]

\* C10: when the parser handles a lesson row with ordinal n in 1..12 that
\* follows a day marker naming a weekday W of Monday..Saturday, every Lesson
\* it emits has the group name of its column block, the subject, teacher and
\* room of slots 0, 2 and 3 of the block, weekday W and the start and end
\* time of entry n of W's bell table (Saturday: the shortened table); for
\* Monday and ordinal 1 the times are 08:15 and 09:00.
C10_LessonFieldsAndBellTimes ==
    [][ \A w \in SixDays, n \in 1..12 :
          ( /\ ppc = "rows"
            /\ rowIdx < Len(csvRecords)
            /\ ~IsEmptyRow(csvRecords[rowIdx + 1])
            /\ ~IsDayMarkerRow(csvRecords[rowIdx + 1])
            /\ Atoi(TrimSpace(csvRecords[rowIdx + 1][1])) = [err |-> FALSE, value |-> n]
            /\ FollowsMarkerNaming(csvRecords, rowIdx + 1, w) )
          => LET row == csvRecords[rowIdx + 1]
                 names == GroupNamesFrom(csvRecords[2], 2)
             IN /\ Len(records') >= Len(records)
                /\ SubSeq(records', 1, Len(records)) = records
                /\ \A k \in (Len(records) + 1)..Len(records') :
                      /\ \E g \in 0..(Len(names) - 1) :
                            /\ Len(row) >= 1 + 4 * g + 4
                            /\ records'[k].GroupName = names[g + 1]
                            /\ records'[k].Subject = TrimSpace(row[1 + 4 * g + 1])
                            /\ records'[k].Teacher = TrimSpace(row[1 + 4 * g + 3])
                            /\ records'[k].Classroom = TrimSpace(row[1 + 4 * g + 4])
                      /\ records'[k].DayOfWeek = w
                      /\ records'[k].TimeStart = BellEntry(w, n).TimeStart
                      /\ records'[k].TimeEnd = BellEntry(w, n).TimeEnd
                      /\ (w = Text("Ponedelnik") /\ n = 1)
                            => /\ records'[k].TimeStart = "08:15"
                               /\ records'[k].TimeEnd = "09:00"
      ]_vars

C10_Witness ==
    /\ ppc = "done" /\ perr = "nil"
    /\ \E k \in 1..Len(records) :
          records[k] = ScheduleRecord(Text("G2"), Text("Physics"), Text("Jones"),
                                      Text("202"), "09:50", "10:35", Saturday)
    /\ \E k \in 1..Len(records) :
          records[k] = ScheduleRecord(Text("G1"), Text("Math"), <<"Smith", " ", "J.">>,
                                      Text("101"), "09:50", "10:35", Saturday)

----------------------------------------------------------------------------
\* More properties of the timetable parser

Sunday == Text("Voskresenye")

\* the non-empty subject cells of one row, as group indexes
RowSubjects(grid, k) ==
    { g \in 0..(GroupCount(grid) - 1) : TrimSpace(grid[k][1 + 4 * g + 1]) # <<>> }

\* C11: a lesson row whose ordinal has no entry in the bell table of the
\* current weekday (an ordinal outside 1..12 under Monday..Saturday, or any
\* ordinal under a weekday without a table) yields one Lesson per non-empty
\* subject cell, each with start time and end time empty, and the parse
\* returns no error.
C11_MissingBellEntryGivesEmptyTimes ==
    [][ /\ \A w \in SixDays \cup {Sunday} :
             ( /\ ppc = "rows"
               /\ rowIdx < Len(csvRecords)
               /\ IsLessonRow(csvRecords, rowIdx + 1)
               /\ FollowsMarkerNaming(csvRecords, rowIdx + 1, w)
               /\ \/ w = Sunday
                  \/ Atoi(TrimSpace(csvRecords[rowIdx + 1][1])).value \notin 1..12 )
             => /\ ppc' = "rows"
                /\ SubSeq(records', 1, Len(records)) = records
                /\ Len(records') = Len(records)
                                   + Cardinality(RowSubjects(csvRecords, rowIdx + 1))
                /\ \A k \in (Len(records) + 1)..Len(records') :
                      /\ records'[k].TimeStart = ""
                      /\ records'[k].TimeEnd = ""
                      /\ records'[k].DayOfWeek = w
        /\ (ppc = "rows" /\ ppc' = "done") => perr' = "nil"
      ]_vars

C11_Witness ==
    /\ ppc = "done" /\ perr = "nil"
    /\ GroupCount(csvRecords) = 2
    /\ \E k \in 1..Len(records) :
          /\ records[k].GroupName = Text("G2")
          /\ records[k].DayOfWeek = Sunday
          /\ records[k].TimeStart = "" /\ records[k].TimeEnd = ""
    /\ \E k \in 6..Len(csvRecords) :
          /\ IsLessonRow(csvRecords, k)
          /\ FollowsMarkerNaming(csvRecords, k, Sunday)
          /\ Cardinality(RowSubjects(csvRecords, k)) = 2

\* C12: when the grid has fewer than 5 rows, or row 1 yields no non-empty
\* group name from column 1 onward, or row 4 has fewer than 4 x groupCount
\* cells, the parser returns an error and no Lesson record; an error never
\* comes with a partial record list.
C12_LayoutErrorReturnsNoRecords ==
    ppc = "done"
        => /\ ~LayoutOK(csvRecords) => (perr \notin {"nil", "none"} /\ records = <<>>)
           /\ perr # "nil" => records = <<>>

C12_Witness ==
    /\ ppc = "done"
    /\ perr = "header_too_short"
    /\ Len(csvRecords) = 6
    /\ GroupCount(csvRecords) = 2
    /\ Len(csvRecords[5]) < 8
    /\ Len(csvRecords[6]) = 9
    /\ ~Atoi(TrimSpace(csvRecords[6][1])).err
    /\ records = <<>>

----------------------------------------------------------------------------
\* Properties of the correction parsers

\* the table of the scenario: header [Gruppa, Data, Vremya nachala, Predmet,
\* Tip izmeneniya] and the one row [G1, 23.06.2025, 09:00, Physics, otmena]
ScenarioChangeGrid ==
    << ChangeHeaderRow(<<"group", "date", "start_a", "subject", "kind">>),
       << Text("G1"), Text("23.06.2025"), Text("09:00"), Text("Physics"), CellOtmena >> >>

\* C13: for the corrections table with header [Gruppa, Data, Vremya nachala,
\* Predmet, Tip izmeneniya] and the single row [G1, 23.06.2025, 09:00,
\* Physics, otmena] the correction parser returns no error and exactly one
\* Change: group G1, date 23.06.2025, start 09:00, subject Physics, kind
\* cancellation.
C13_ScenarioYieldsOneCancellation ==
    (chpc = "done" /\ chCsv = ScenarioChangeGrid)
        => /\ chErr = "nil"
           /\ Len(chRecords) = 1
           /\ chRecords[1].GroupName = Text("G1")
           /\ chRecords[1].Date = Date1
           /\ chRecords[1].TimeStart = Text("09:00")
           /\ chRecords[1].Subject = Text("Physics")
           /\ chRecords[1].ChangeType = "cancellation"

\* the fixed vocabulary of change kinds and what each word maps to
KindVocabulary ==
    [w \in {WordZamena, WordReplaced, WordReplacement} |-> "replacement"]
    @@ [w \in {WordOtmena, WordCancelled, WordCancellation} |-> "cancellation"]
    @@ [w \in {WordDobavlenie, WordAdded, WordAddition} |-> "addition"]

\* the change-kind cell of the row the parser is about to handle
KindCellPresent ==
    /\ chpc = "rows" /\ chIdx < Len(chCsv)
    /\ chCols.changeTypeCol # -1
    /\ chCols.changeTypeCol < Len(chCsv[chIdx + 1])

KindCell == ToLower(TrimSpace(chCsv[chIdx + 1][chCols.changeTypeCol + 1]))

\* C14: a correction row whose change-kind cell is not in the vocabulary
\* yields no Change (it is not emitted with kind replacement or another
\* default) and the parse goes on with the next row; every emitted Change
\* has the kind the vocabulary gives for the cell of its own row.
C14_UnknownKindIsDropped ==
    [][ KindCellPresent
          => /\ KindCell \notin DOMAIN KindVocabulary
                  => (chRecords' = chRecords /\ chpc' = "rows" /\ chIdx' = chIdx + 1)
             /\ \A k \in (Len(chRecords) + 1)..Len(chRecords') :
                   /\ KindCell \in DOMAIN KindVocabulary
                   /\ chRecords'[k].ChangeType = KindVocabulary[KindCell]
      ]_vars

\* the row the parser is about to handle is valid but for optional cells:
\* it covers the four required columns, its date is DD.MM.YYYY, group and
\* subject are not empty, and its kind cell, if it has one, is a native word
OtherwiseValidRow ==
    /\ chpc = "rows" /\ chIdx < Len(chCsv)
    /\ LET row == chCsv[chIdx + 1]
       IN /\ Len(row) > max(<<chCols.groupCol, chCols.dateCol, chCols.timeStartCol,
                              chCols.subjectCol>>)
          /\ ~ParseDate("02.01.2006", TrimSpace(row[chCols.dateCol + 1])).err
          /\ TrimSpace(row[chCols.groupCol + 1]) # <<>>
          /\ TrimSpace(row[chCols.subjectCol + 1]) # <<>>
          /\ KindCellPresent => KindCell \in {WordZamena, WordOtmena, WordDobavlenie}

\* C15: once the header has resolved the required roles, a data row that is
\* valid but for its optional cells yields a Change, whether or not the
\* header has a column for end time, teacher, classroom or original subject
\* and whether or not the row reaches it; a field whose column is missing or
\* out of the row's range is empty; the parser does not fail, abort or skip
\* the row.
C15_MissingOptionalColumnsGiveEmptyFields ==
    [][ OtherwiseValidRow
          => /\ chpc' = "rows"
             /\ Len(chRecords') = Len(chRecords) + 1
             /\ LET row == chCsv[chIdx + 1]
                    new == chRecords'[Len(chRecords')]
                IN /\ new.TimeEnd = OptionalCell(row, chCols.timeEndCol)
                   /\ new.Teacher = OptionalCell(row, chCols.teacherCol)
                   /\ new.Classroom = OptionalCell(row, chCols.classroomCol)
                   /\ new.OriginalSubject = OptionalCell(row, chCols.originalSubjectCol)
      ]_vars


----------------------------------------------------------------------------
\* Properties of the merge engine: the update of an existing entry

\* the Change of the running step is applied to a key that has an active entry
UpdatesExisting ==
    /\ pc = "loop" /\ idx <= Len(changes) /\ idx' = idx + 1 /\ idx \in applied'
    /\ GetCurrentScheduleEntry(View, changes[idx].GroupName, changes[idx].Date,
                               changes[idx].TimeStart) # {}

\* C16: a Change applied to a key that already has an (active) entry changes
\* only that entry's subject, teacher, classroom, provenance tag (set to
\* from-correction) and provenance reference (set to the Change's id); the
\* entry's row id, group, date, start time, end time and active flag, and
\* every other row of the table, are left as they were.
C16_UpdateTouchesOnlyContentAndProvenance ==
    [][ UpdatesExisting
        => LET c == changes[idx]
           IN \E r \in KeyRows(View, c) :
                 ViewNext = (View \ {r}) \cup
                            { [r EXCEPT !.Subject = c.Subject, !.Teacher = c.Teacher,
                                        !.Classroom = c.Classroom,
                                        !.SourceType = "change", !.SourceID = c.ID] }
      ]_vars

C16_Witness ==
    /\ pc = "loop" /\ idx = 2 /\ applied = {1} /\ lastStmt = "update"
    /\ changes[1].TimeEnd = ""
    /\ \E r \in KeyRows(View, changes[1]) :
          /\ r.TimeEnd = "09:45" /\ r.SourceID = changes[1].ID
          /\ r.Subject = changes[1].Subject
    /\ \E q \in View : q.GroupName = changes[1].GroupName /\ q.Date = changes[1].Date
                       /\ q.TimeStart # changes[1].TimeStart


\* the rows of a table whose active flag is set, by row id
ActiveIds(table) == { r.ID : r \in { q \in table : q.IsActive } }

\* C17: no step of an ApplyChanges call clears an active flag, whatever the
\* kind of the Change; after a cancellation is applied to a key that has an
\* active entry, that entry is still active, is still returned by the query
\* by group and date, and carries the cancellation's subject, teacher and
\* classroom.
C17_CancellationKeepsEntryActive ==
    [][ (pc = "loop" /\ idx <= Len(changes) /\ idx' = idx + 1)
        => /\ ActiveIds(View) \subseteq ActiveIds(ViewNext)
           /\ ActiveIds(rows) \subseteq ActiveIds(rows')
           /\ (UpdatesExisting /\ changes[idx].ChangeType = "cancellation")
                 => LET c == changes[idx]
                    IN \E r \in GetCurrentScheduleForGroup(ViewNext, c.GroupName, c.Date) :
                          /\ r.ID \in ActiveIds(View)
                          /\ r.TimeStart = c.TimeStart
                          /\ r.IsActive
                          /\ r.Subject = c.Subject /\ r.Teacher = c.Teacher
                          /\ r.Classroom = c.Classroom
      ]_vars

C17_Witness ==
    /\ pc = "loop" /\ idx = 2 /\ applied = {1} /\ lastStmt = "update"
    /\ changes[1].ChangeType = "cancellation"
    /\ \E old \in KeyRows(rowsAtBegin, changes[1]) :
          /\ old.IsActive /\ old.Subject # changes[1].Subject
          /\ \E r \in GetCurrentScheduleForGroup(View, changes[1].GroupName, changes[1].Date) :
                r.ID = old.ID /\ r.Subject = changes[1].Subject


----------------------------------------------------------------------------
\* Properties of the periodic tasks

\* the step starts a ScrapeMainSchedule / ScrapeScheduleChanges call
MainCycleStarts == mainCycles' = mainCycles + 1
ChangesCycleStarts == chgCycles' = chgCycles + 1

\* the step takes a tick out of the task's own ticker channel
MainTickTaken == mainTickerC = 1 /\ mainTickerC' = 0 /\ mainTicks' = mainTicks + 1
ChangesTickTaken == chgTickerC = 1 /\ chgTickerC' = 0 /\ chgTicks' = chgTicks + 1

\* C18: after StartPeriodicScraping each of the two tasks first runs its
\* cycle once, the timetable cycle on any weekday; afterwards a cycle starts
\* only by taking one tick out of the task's own ticker, so that the cycles
\* of a task never outnumber its ticks by more than the first one; the
\* corrections task starts a cycle on every tick it takes, the timetable
\* task on exactly the ticks it takes on a Saturday; and a task stops only
\* when the context is cancelled.
C18_ImmediateRunThenOneCyclePerTick ==
    [][ /\ (mainPc = "start" /\ mainPc' # "start")
              => (MainCycleStarts /\ mainCycles' = 1 /\ mainPc' = "cycle")
        /\ (chgPc = "start" /\ chgPc' # "start")
              => (ChangesCycleStarts /\ chgCycles' = 1 /\ chgPc' = "cycle")
        /\ (MainCycleStarts /\ mainPc # "start")
              => (MainTickTaken /\ today = time_Saturday)
        /\ (ChangesCycleStarts /\ chgPc # "start") => ChangesTickTaken
        /\ (mainTickerC = 1 /\ mainTickerC' = 0)
              => (MainTickTaken /\ (MainCycleStarts <=> today = time_Saturday))
        /\ (chgTickerC = 1 /\ chgTickerC' = 0)
              => (ChangesTickTaken /\ ChangesCycleStarts)
        /\ mainCycles' <= 1 + mainTicks'
        /\ chgCycles' <= 1 + chgTicks'
        /\ mainCycles' \in {mainCycles, mainCycles + 1}
        /\ chgCycles' \in {chgCycles, chgCycles + 1}
        /\ (mainPc' = "stopped" \/ chgPc' = "stopped") => ctx = "done"
        /\ (mainPc # "off" /\ chgPc # "off") => started
      ]_vars

C18_Witness ==
    /\ ctx = "active"
    /\ mainTicks = 2 /\ mainCycles = 2 /\ mainPc = "cycle"
    /\ today = time_Saturday
    /\ chgTicks = 2 /\ chgCycles = 3


\* the ScrapeScheduleChanges calls of the corrections task that have not returned
RunningCycles == { n \in CycleIds : chgPhase[n] \in {"fetch", "create", "apply", "notify"} }

\* those of them that are inside ApplyChanges
ApplyingCycles == { n \in CycleIds : chgPhase[n] = "apply" }

\* C19: at any moment at most one ScrapeScheduleChanges call of the
\* corrections task is running, and so at most one of its ApplyChanges calls
\* is in progress; the task starts a call only when every earlier call of
\* it has returned.
C19_OneCorrectionCycleAtATime ==
    /\ [](Cardinality(RunningCycles) <= 1 /\ Cardinality(ApplyingCycles) <= 1)
    /\ [][ ChangesCycleStarts
           => \A n \in CycleIds : n <= chgCycles => chgPhase[n] = "returned" ]_vars

C19_Witness ==
    /\ chgCycles = 2
    /\ chgPhase[1] = "returned"
    /\ chgPhase[2] = "apply"
    /\ chgTickerC = 1
    /\ ctx = "active"


\* C20: no cycle wedges its task: every cycle a task is inside comes to an
\* end (it is bounded by a deadline), and while the context is not
\* cancelled every tick that waits in a task's ticker channel is taken by
\* the task, so that later cycles are still started.
C20_StuckCycleDoesNotWedge ==
    /\ (chgPc = "cycle") ~> (chgPc # "cycle")
    /\ (mainPc = "cycle") ~> (mainPc # "cycle")
    /\ (chgTickerC = 1 /\ chgTicks < MaxTicks) ~> (chgTickerC = 0 \/ ctx = "done")
    /\ (mainTickerC = 1 /\ mainTicks < MaxTicks) ~> (mainTickerC = 0 \/ ctx = "done")


\* C21: once the context has been cancelled, no tick starts a cycle any
\* more in either task, also when a tick waits in the ticker channel at the
\* time of the cancellation.
C21_NoCycleStartsAfterCancel ==
    [][ ctx = "done"
        => /\ ~(MainCycleStarts /\ mainPc = "select")
           /\ ~(ChangesCycleStarts /\ chgPc = "select") ]_vars


\* C22: Service.lastChangeHash is read and written by the corrections
\* goroutine only, never by the timetable goroutine, and it is the only
\* field of the Service either goroutine assigns to: no field is written by
\* one goroutine and read or written by the other.
C22_FingerprintOwnedByCorrectionsTask ==
    /\ \A a \in accesses : a[2] = "lastChangeHash" => a[1] = "changes"
    /\ \A a \in accesses : a[3] = "write" => a[2] = "lastChangeHash"
    /\ \A a, b \in accesses :
          (a[2] = b[2] /\ a[1] # b[1]) => (a[3] = "read" /\ b[3] = "read")

C22_Witness ==
    /\ <<"changes", "lastChangeHash", "write">> \in accesses
    /\ <<"changes", "lastChangeHash", "read">> \in accesses
    /\ <<"main", "scheduleRepo", "read">> \in accesses
    /\ <<"changes", "scheduleRepo", "read">> \in accesses
    /\ mainCycles = 2 /\ mainPc = "cycle" /\ mainPhase = "store"
    /\ chgPc = "cycle" /\ chgCycles = 2


\* the step in which a cycle of the task returns an error to its goroutine
MainCycleFails == mainPc = "cycle" /\ mainPc' # "cycle" /\ mainResult' = "error"
ChangesCycleFails == chgPc = "cycle" /\ chgPc' # "cycle" /\ chgResult' = "error"

\* C23: a cycle that returns an error leaves its task running: the
\* goroutine is back in its select with its ticker on, the other task is
\* not touched, and the next tick the task takes starts a new cycle (for
\* the timetable task: on a Saturday); a correction cycle returns an error
\* only before the fingerprint comparison, and such a cycle has neither
\* written the stored fingerprint nor called the repository or the merge
\* engine.
C23_FailedCycleLeavesTaskRunning ==
    [][ /\ MainCycleFails
            => (mainPc' = "select" /\ mainTicker' = "on" /\ UNCHANGED chgTaskVars)
        /\ ChangesCycleFails
            => /\ chgPc' = "select" /\ chgTicker' = "on" /\ UNCHANGED mainTaskVars
               /\ \E n \in CycleIds : chgWait = n /\ chgPhase[n] = "fetch"
               /\ \A a \in accesses' \ accesses :
                     /\ a[3] = "read"
                     /\ a[2] \notin {"lastChangeHash", "scheduleRepo", "changeService"}
        /\ (mainResult = "error" /\ MainTickTaken /\ today = time_Saturday)
            => (MainCycleStarts /\ mainPc' = "cycle")
        /\ (chgResult = "error" /\ ChangesTickTaken)
            => (ChangesCycleStarts /\ chgPc' = "cycle")
      ]_vars

C23_Witness ==
    /\ chgResult = "error" /\ chgCycles = 2 /\ chgPc = "cycle" /\ chgTicks = 1
    /\ mainResult = "error" /\ mainCycles = 2 /\ mainPc = "cycle"
    /\ ctx = "active"
    /\ \A a \in accesses : a[3] = "read" /\ a[2] # "lastChangeHash"


----------------------------------------------------------------------------
\* Properties of the notification sink and of the snapshot table

\* the ids of the Changes of slice q
ChangeIds(q) == { q[i].ID : i \in 1..Len(q) }

\* C24: a failing notification does not abort a cycle.  In a correction
\* cycle the notification loop goes on to the next created Change after a
\* failure, the cycle ends only when a notification has been attempted for
\* every created Change, and it returns nil; an error is returned only
\* before the fingerprint comparison.  In a timetable cycle the
\* notification, failed or not, leaves the stored snapshot in the table and
\* the cycle returns nil.
C24_NotificationFailureDoesNotAbort ==
    [][ /\ (cpc = "notify" /\ notifyFailed' # notifyFailed)
            => /\ cpc' = "notify" /\ ci' = ci + 1
               /\ createdChanges' = createdChanges
               /\ cresult' = cresult
        /\ (cpc = "notify" /\ cpc' = "idle")
            => /\ ChangeIds(createdChanges) \subseteq notified
               /\ cresult' = "nil"
        /\ (cpc' = "idle" /\ cresult' = "err" /\ cpc # "off")
            => cexit' = "fetch_or_parse_error"
        /\ (mpc = "created" /\ mpc' # "created")
            => /\ snapshots' = snapshots
               /\ \E s \in snapshots' : s.ID = snapshot /\ s.IsActive
               /\ snapshot \in sentNew'
               /\ mresult' = "nil"
      ]_vars

C24_Witness ==
    /\ cpc = "idle" /\ cexit = "done" /\ cresult = "nil"
    /\ "u1" \in notifyFailed
    /\ "u2" \in notified \ notifyFailed

C24_WitnessTimetable ==
    /\ mpc = "idle" /\ mexit = "done" /\ mresult = "nil"
    /\ 1 \in sentNewFailed
    /\ \E s \in snapshots : s.ID = 1 /\ s.IsActive

\* C25: after any number of successful timetable cycles at most one stored
\* snapshot has its is_active flag set.
C25_AtMostOneActiveSnapshot ==
    Cardinality({ s \in snapshots : s.IsActive }) <= 1


----------------------------------------------------------------------------
\* Properties of the timetable parser: day markers without a weekday, short rows

\* no weekday name can be taken from a day-marker cell: it has no comma, or
\* the text before the comma has no "-"
NoWeekdayInMarker(cell) ==
    LET parts == Split(cell, ",")
    IN \/ Len(parts) < 2
       \/ Len(Split(TrimSpace(parts[1]), "-")) < 2

\* the last day marker before row k is one without a weekday name
FollowsMarkerWithoutWeekday(grid, k) ==
    \E j \in 6..(k - 1) :
        /\ IsDayMarkerRow(grid[j])
        /\ \A m \in (j + 1)..(k - 1) : ~IsDayMarkerRow(grid[m])
        /\ NoWeekdayInMarker(grid[j][1])

\* C26: after a day-marker row from which no weekday name can be extracted
\* the weekday is unknown: every Lesson that a later row emits, up to the
\* next day marker, has an empty start and end time and no weekday, so none
\* carries the weekday or the bell times of an earlier day marker.
C26_MarkerWithoutWeekdayResetsDay ==
    [][ ( /\ ppc = "rows"
          /\ rowIdx < Len(csvRecords)
          /\ ~IsDayMarkerRow(csvRecords[rowIdx + 1])
          /\ FollowsMarkerWithoutWeekday(csvRecords, rowIdx + 1) )
        => \A k \in (Len(records) + 1)..Len(records') :
              /\ records'[k].TimeStart = ""
              /\ records'[k].TimeEnd = ""
              /\ records'[k].DayOfWeek = <<>>
      ]_vars

\* C27: a body row that is not a day marker and has fewer than
\* 1 + 4*groupCount cells adds no Lesson for any group, and a row of full
\* length loses only the records of the groups whose block is out of range
\* (every group with a non-empty subject cell in range gets its record).
C27_ShortRowIsSkippedWhole ==
    [][ ( /\ ppc = "rows"
          /\ rowIdx < Len(csvRecords)
          /\ ~IsDayMarkerRow(csvRecords[rowIdx + 1]) )
        => LET row == csvRecords[rowIdx + 1]
               full == 1 + 4 * Len(groupNames)
           IN /\ Len(row) < full => records' = records
              /\ (Len(row) >= full /\ ~Atoi(TrimSpace(row[1])).err)
                    => Len(records') - Len(records) =
                          Cardinality({ g \in 0..(Len(groupNames) - 1) :
                                          TrimSpace(row[1 + 4 * g + 1]) # <<>> })
      ]_vars


----------------------------------------------------------------------------
\* Properties of the correction cycle: fingerprint and failed merges

\* C28: a stored fingerprint equal to the fingerprint of a change set means
\* that the set has been merged. When ApplyChanges comes back to the cycle
\* with an error or with Changes it could not merge, and when the cycle
\* returns after CreateChange failed for some record, the stored fingerprint
\* is not the fingerprint of the fetched set, so the next cycle that fetches
\* the same corrections does not take the "no new corrections" exit.
C28_FailedMergeIsNotFingerprinted ==
    [][ ( \/ /\ cpc = "applying" /\ cpc' = "notify"
             /\ (result # "nil" \/ failed # {})
          \/ /\ cpc = "notify" /\ cpc' = "idle"
             /\ Len(createdChanges) < Len(changeRecords) )
        => lastChangeHash' # calculateDataHash(changeRecords)
      ]_vars


----------------------------------------------------------------------------
\* Properties of the snapshot replace

\* C29: a snapshot replace deactivates exactly the active rows whose
\* (group, date) pair occurs in the new entry list (every such row, and no
\* other row is touched) and then inserts the new entries; a replace that
\* fails leaves the table as it was.
C29_ReplaceDeactivatesExactlyListedPairs ==
    [][ (pc = "idle" /\ pc' = "idle")
        => LET inserted == { r \in rows' : r.ID >= nextRowId /\ r.ID < nextRowId' }
               pairs == { <<r.GroupName, r.Date>> : r \in inserted }
           IN /\ nextRowId' = nextRowId => rows' = rows
              /\ nextRowId' > nextRowId =>
                    /\ Cardinality(inserted) = nextRowId' - nextRowId
                    /\ \A r \in inserted : r.IsActive
                    /\ rows' \ inserted =
                          { IF r.IsActive /\ <<r.GroupName, r.Date>> \in pairs
                              THEN [r EXCEPT !.IsActive = FALSE] ELSE r : r \in rows }
      ]_vars


----------------------------------------------------------------------------
\* Properties of the scraper's correction parser: column resolution

\* C30: parseChangeRecords is deterministic. Once a run has resolved the
\* columns of a grid, every run on the same grid resolves every role to the
\* same column (the rows are then read through these columns, so the Change
\* lists are equal too), also for a header with both a subject and an
\* original-subject cell; with such a header the subject column is the
\* subject cell and the original-subject column is the original-subject cell.
C30_ColumnResolutionIsDeterministic ==
    (chParser = "service" /\ chpc = "rows")
        => LET header == chCsv[1]
           IN /\ \A cols \in ServiceColumns(header) : cols = chCols
              /\ \A k \in 1..Len(header) :
                    /\ header[k] = HeaderText("subject") => chCols.subjectCol = k - 1
                    /\ header[k] = HeaderText("orig")
                          => chCols.originalSubjectCol = k - 1

====
